---- MODULE Spec2Model ----
(***************************************************************************)
(* Model of the quiz solver: one round of solveQuiz (solver.js), the asset *)
(* downloader downloadToBuffer (utils/fetcher.js), analyzeQuiz and its     *)
(* helpers, and the webhook's loop of rounds.                              *)
(*                                                                         *)
(* Spec          one round of solveQuiz: browser, page load, analyzeQuiz,  *)
(*               the six submission attempts, the return value.            *)
(* SpecDownload  one call of downloadToBuffer: the attempt loop, the 405   *)
(*               GET retry, HTML unwrapping, backoff, the raised error.    *)
(* SpecAnalyze   one call of analyzeQuiz: the branch it selects.           *)
(* SpecWebhook   the webhook's background loop of rounds (server.js).      *)
(* SpecJson      one call of extractBalancedJson.                          *)
(* SpecPdf       one call of sumColumn (utils/pdf.js).                     *)
(* SpecCsv       the sum of the CSV branch of analyzeQuiz.                 *)
(* SpecBranch    the file branches of analyzeQuiz and their requests.      *)
(* SpecContent   the page content solveQuiz reads: atob payload or body.   *)
(* SpecWebhookFair  SpecWebhook under the event loop's scheduling.         *)
(***************************************************************************)
EXTENDS Integers, Sequences, FiniteSets, TLC

VARIABLES
    \* ---- solveQuiz (solver.js)
    pc,          \* position of the round
    browser,     \* "none" | "open" | "closed"
    parsed,      \* the task description parsed from the page
    analysis,    \* what analyzeQuiz produced: an answer or an error
    attemptLog,  \* the submission attempts issued so far, with their outcomes
    finalReply,  \* solveQuiz's finalReply
    outcome,     \* how the round ended: a returned value or a thrown error
    ran,         \* the branch analyzeQuiz took and how its download went
    \* ---- downloadToBuffer (utils/fetcher.js)
    dpc,          \* position of the download
    m,            \* the upper-cased method
    retries,      \* opts.retries
    retryDelayMs, \* opts.retryDelayMs
    attempt,      \* the loop counter
    lastErr,      \* the last error caught
    res,          \* the response the current attempt is looking at
    reqs,         \* requests and delays of the current attempt, in order
    nPrimary,     \* primary requests made so far, all attempts
    delays,       \* backoff delays waited so far, all attempts
    dout,         \* how the download ended: bytes or a raised error
    \* ---- analyzeQuiz (analyzeQuiz.js)
    azpc,         \* position of the call
    azParsed,     \* the task description passed in
    azText,       \* the page text passed in
    azEnv,        \* what the branch meets: download and data at hand or not
    azRan,        \* the branches whose body ran, in order
    azResult,     \* what the call returned or threw
    \* ---- the webhook's background loop (server.js)
    wpc,          \* position of the loop
    wNow,         \* Date.now() - start, in ms
    wEmail,       \* req.body.email
    wSecret,      \* req.body.secret
    wCurrentUrl,  \* currentUrl
    wRound,       \* round
    wTimerAt,     \* when the current round's timer fires
    wStarted,     \* calls of solveQuiz made so far
    wCur,         \* the arguments and start time of the last call
    wRunning,     \* the calls that have not settled yet, by number
    wReply,       \* reply
    wSeed,        \* the reply the loop held when it made the last call
    wBroke,       \* why the loop left through break, and after how many calls
    wLate,        \* what an abandoned call settled with afterwards
    \* ---- extractBalancedJson (solver.js)
    jtext,        \* text
    jout,         \* the value returned
    jdone,        \* whether the call has returned
    \* ---- sumColumn (utils/pdf.js)
    pText,        \* res.text, the text pdfParse extracted
    pPage,        \* the page option
    psum,         \* sum
    pfound,       \* found
    pdone,        \* whether the call has returned
    \* ---- the CSV sum (analyzeQuiz.js)
    cParsed,      \* the task description: column and field
    cRows,        \* rows
    csum,         \* sum
    cdone,        \* whether the sum has been computed
    \* ---- the file branches of analyzeQuiz (analyzeQuiz.js)
    bpc,          \* position inside the branch
    bBranch,      \* the branch that runs
    bParsedUrl,   \* parsed?.url
    bTextUrl,     \* the first http(s) URL of the page text
    bOrigin,      \* baseOrigin, or none when new URL(baseUrl) throws
    bTry,         \* attempts made by the current downloadToBuffer call
    bCand,        \* index of the candidate path being tried
    bExtracted,   \* what tryExtractAssetUrlFromPage returned
    bLog,         \* the requests issued so far, in order, with their outcomes
    bBuf,         \* the URL whose bytes the branch holds, if any
    bResult,      \* what the branch returned or threw
    \* ---- the page content of solveQuiz (solver.js)
    xHtml,        \* page.content(): the atob payload if any, the body text
    xInner,       \* inner
    xJsonStr,     \* jsonStr
    xdone         \* whether the content has been extracted

svars == <<pc, browser, parsed, analysis, attemptLog, finalReply, outcome, ran>>
dvars == <<dpc, m, retries, retryDelayMs, attempt, lastErr, res, reqs,
           nPrimary, delays, dout>>
azvars == <<azpc, azParsed, azText, azEnv, azRan, azResult>>
wvars == <<wpc, wNow, wEmail, wSecret, wCurrentUrl, wRound, wTimerAt, wStarted,
           wCur, wRunning, wReply, wSeed, wBroke, wLate>>
jvars == <<jtext, jout, jdone>>
pvars == <<pText, pPage, psum, pfound, pdone>>
cvars == <<cParsed, cRows, csum, cdone>>
bvars == <<bpc, bBranch, bParsedUrl, bTextUrl, bOrigin, bTry, bCand, bExtracted,
           bLog, bBuf, bResult>>
xvars == <<xHtml, xInner, xJsonStr, xdone>>
ovars == <<azvars, wvars, jvars, pvars, cvars, bvars, xvars>>
vars == <<svars, dvars, ovars>>

(***************************************************************************)
(* JavaScript values, as far as the submission reply needs them: a type    *)
(* tag and the value's text.                                               *)
(***************************************************************************)
JsNull == [t |-> "null", v |-> ""]
JsStr(s) == [t |-> "str", v |-> s]
JsNum(s) == [t |-> "num", v |-> s]
JsBool(s) == [t |-> "bool", v |-> s]
JsObj(s) == [t |-> "obj", v |-> s]

\* ToBoolean: what `!x` negates.
Truthy(x) ==
    CASE x.t = "null" -> FALSE
      [] x.t = "str" -> x.v # ""
      [] x.t = "num" -> x.v # "0"
      [] x.t = "bool" -> x.v = "true"
      [] OTHER -> TRUE

\* a ?? b
Coalesce(a, b) == IF a.t = "null" THEN b ELSE a

\* The response bodies a submission endpoint answers with.
RawBodies ==
    {"", "0", "false", "\"\"", "null", "OK",
     "{\"correct\":true}", "{\"correct\":true,\"url\":\"https://quiz.test/next\"}"}

\* Whether JSON.parse(raw) returns (it throws on the empty text and on OK).
JsonParses(raw) == raw \notin {"", "OK"}

\* JSON.parse(raw), where it returns.
JsonParse(raw) ==
    CASE raw = "0" -> JsNum("0")
      [] raw = "false" -> JsBool("false")
      [] raw = "\"\"" -> JsStr("")
      [] raw = "null" -> JsNull
      [] OTHER -> JsObj(raw)

\* try { parsedResp = JSON.parse(rawText); } catch { parsedResp = rawText; }
ParsedResp(raw) == IF JsonParses(raw) THEN JsonParse(raw) ELSE JsStr(raw)

FailureMarker == JsObj("{correct:false,reason:'submission failed'}")

(***************************************************************************)
(* The round's inputs.                                                     *)
(***************************************************************************)
PageUrl == [origin |-> "https://quiz.test", path |-> "/demo"]
TaskUrl == [origin |-> "https://files.test", path |-> "/task"]
NoUrl == [origin |-> "", path |-> ""]

\* parsed: null, an object without url, an object with url.
ParsedChoices ==
    {[isNull |-> TRUE, url |-> NoUrl],
     [isNull |-> FALSE, url |-> NoUrl],
     [isNull |-> FALSE, url |-> TaskUrl]}

\* new URL(url).origin
OriginOf(u) == [origin |-> u.origin, path |-> ""]

\* parsed?.url || url
SubmitUrl(p, url) == IF p.url # NoUrl THEN p.url ELSE url

(***************************************************************************)
(* analyzeQuiz, by branch: what it needs and how it ends.                  *)
(***************************************************************************)
Branches == {"pdf-sum", "csv-sum", "audio-transcribe", "image-ocr", "chart",
             "passthrough", "unknown"}

\* What a branch meets: whether a file URL is found, whether the asset
\* download succeeds, whether parsed.data is present.
TaskInputs ==
    [branch : Branches, hasUrl : BOOLEAN, dlOk : BOOLEAN, hasData : BOOLEAN]

Answer(a) == [ok |-> TRUE, answer |-> a, err |-> ""]
Failure(e) == [ok |-> FALSE, answer |-> "", err |-> e]
NoAnalysis == [ok |-> FALSE, answer |-> "", err |-> "none"]
NoRan == [branch |-> "", dl |-> "none"]

\* What the round remembers of the call of analyzeQuiz: the branch whose body
\* ran and, for a branch that downloads a file, how the download went.
Ran(t) ==
    [branch |-> t.branch,
     dl |-> IF t.branch \in {"pdf-sum", "csv-sum", "audio-transcribe", "image-ocr"}
               /\ t.hasUrl
            THEN IF t.dlOk THEN "ok" ELSE "failed"
            ELSE "none"]

\* imageUtil.ocrBuffer(buf) with an OCR engine installed
OcrBufferReads == Answer("text")

\* async function ocrBuffer(buf) { throw new Error("OCR not enabled: ...") }
OcrBuffer == Failure("OCR not enabled")

AnalyzeQuiz(t) ==
    CASE t.branch = "pdf-sum" ->
            IF ~t.hasUrl THEN Failure("No file URL for PDF task")
            ELSE IF ~t.dlOk THEN Failure("Download failed")
            ELSE Answer("sum")
      [] t.branch = "csv-sum" ->
            IF ~t.hasUrl THEN Failure("No file URL for CSV task")
            ELSE IF ~t.dlOk THEN Failure("Download failed")
            ELSE Answer("sum")
      [] t.branch = "audio-transcribe" ->
            IF ~t.hasUrl THEN Failure("No file URL for Audio task")
            ELSE IF ~t.dlOk THEN Failure("Could not find audio file")
            ELSE Answer("TRANSCRIPTION_PLACEHOLDER")
      [] t.branch = "image-ocr" ->
            IF ~t.hasUrl THEN Failure("No file URL for Image task")
            ELSE IF ~t.dlOk THEN Failure("Download failed")
            ELSE OcrBuffer
      [] t.branch = "chart" ->
            IF ~t.hasData THEN Failure("No data for chart task")
            ELSE Answer("pngB64")
      [] t.branch = "passthrough" -> Answer("parsed.answer")
      [] OTHER -> Answer("first number")

AnalyzeErrors ==
    {"No file URL for PDF task", "No file URL for CSV task",
     "No file URL for Audio task", "No file URL for Image task",
     "Download failed", "Could not find audio file", "OCR not enabled",
     "No data for chart task"}

\* A catch that throws an error of its own instead of e.
WrappedAnalyzeError(e) == "Error"
\* catch (e) { console.error('analyzeQuiz error:', e); throw e; }
RethrownAnalyzeError(e) == e

(***************************************************************************)
(* The submission attempts.                                                *)
(***************************************************************************)
Target(base, suffix) == [base |-> base, suffix |-> suffix]

Attempts(originUrl, submitUrl) ==
    << [label |-> "POST JSON /submit", url |-> Target(originUrl, "/submit"),
        method |-> "POST", ctype |-> "application/json"],
       [label |-> "POST Form /submit", url |-> Target(originUrl, "/submit"),
        method |-> "POST", ctype |-> "application/x-www-form-urlencoded"],
       [label |-> "POST JSON", url |-> Target(submitUrl, ""),
        method |-> "POST", ctype |-> "application/json"],
       [label |-> "POST Form", url |-> Target(submitUrl, ""),
        method |-> "POST", ctype |-> "application/x-www-form-urlencoded"],
       [label |-> "POST Plain", url |-> Target(submitUrl, ""),
        method |-> "POST", ctype |-> "text/plain"],
       [label |-> "GET Query", url |-> Target(submitUrl, "?answer&email&secret"),
        method |-> "GET", ctype |-> ""] >>

NumAttempts == 6

\* What the network does to one attempt: a response (its status, whether its
\* body can be read, the body), a transport error, or the abort of the
\* 15 s timer.
NetOutcomes ==
    [kind : {"resp"}, status : {200}, bodyRead : {TRUE}, raw : RawBodies]
    \cup [kind : {"resp"}, status : {200}, bodyRead : {FALSE}, raw : {""}]
    \cup [kind : {"resp"}, status : {404}, bodyRead : {TRUE}, raw : {"OK"}]
    \cup [kind : {"transport", "timeout"}, status : {0}, bodyRead : {FALSE},
          raw : {""}]

Is2xx(status) == status >= 200 /\ status <= 299

\* doFetch without its try/catch: an error escapes.
DoFetchUncaught(o) ==
    IF o.kind = "resp" /\ o.bodyRead
    THEN [ok |-> Is2xx(o.status), status |-> o.status, rawText |-> JsStr(o.raw),
          parsedResp |-> ParsedResp(o.raw), error |-> "", raised |-> FALSE]
    ELSE [ok |-> FALSE, status |-> 0, rawText |-> JsNull, parsedResp |-> JsNull,
          error |-> "", raised |-> TRUE]

\* doFetch: { ok, status, rawText, parsedResp } or, from the catch,
\* { ok: false, error }. It never raises.
DoFetch(o) ==
    IF o.kind = "resp" /\ o.bodyRead
    THEN [ok |-> Is2xx(o.status), status |-> o.status, rawText |-> JsStr(o.raw),
          parsedResp |-> ParsedResp(o.raw), error |-> "", raised |-> FALSE]
    ELSE [ok |-> FALSE, status |-> 0, rawText |-> JsNull, parsedResp |-> JsNull,
          error |-> IF o.kind = "resp" THEN "body" ELSE o.kind,
          raised |-> FALSE]

\* A loop without its break.
NeverBreaks(r) == FALSE
\* if (r.ok) { finalReply = ...; break; }
LoopBreaks(r) == r.ok

\* finalReply = r.parsedResp ?? r.rawText
FinalReplyOf(r) == Coalesce(r.parsedResp, r.rawText)

\* if (!finalReply) return { correct: false, ... } else return finalReply
ReturnValue(reply) == IF ~Truthy(reply) THEN FailureMarker ELSE reply

Returned(val) == [kind |-> "return", val |-> val, err |-> ""]
Thrown(e) == [kind |-> "throw", val |-> JsNull, err |-> e]
NotEnded == [kind |-> "none", val |-> JsNull, err |-> ""]

\* What the log keeps of an attempt: the status doFetch reports (0: none, the
\* attempt ended in the catch), the body, and how the attempt ended. A
\* response whose body read fails ends in the catch like a transport error.
Pending == "pending"
Summary(o, r) ==
    IF r.ok THEN "ok"
    ELSE IF o.kind = "resp" /\ o.bodyRead THEN "non2xx"
    ELSE IF o.kind = "resp" THEN "body-unread"
    ELSE o.kind

(***************************************************************************)
(* The parts that are not running stay idle.                               *)
(***************************************************************************)
NoAzUrl == [name |-> "", ext |-> ""]
Undefined == [t |-> "undefined", v |-> ""]
NoParsed ==
    [isNull |-> TRUE, task |-> "", type |-> "", url |-> NoAzUrl,
     makeChart |-> FALSE, answer |-> Undefined]
NoText == [words |-> {}, nums |-> <<>>]
AzNoResult == [ok |-> FALSE, answer |-> Undefined, err |-> "none"]

AzIdle ==
    /\ azpc = "idle"
    /\ azParsed = NoParsed
    /\ azText = NoText
    /\ azEnv = FALSE
    /\ azRan = <<>>
    /\ azResult = AzNoResult

NoCall == [url |-> "", email |-> "", secret |-> "", at |-> 0]
NoBreak == [why |-> "none", started |-> 0]
NoReply == [t |-> "none", v |-> ""]

WIdle ==
    /\ wpc = "idle"
    /\ wNow = 0
    /\ wEmail = ""
    /\ wSecret = ""
    /\ wCurrentUrl = ""
    /\ wRound = 0
    /\ wTimerAt = 0
    /\ wStarted = 0
    /\ wCur = NoCall
    /\ wRunning = {}
    /\ wReply = NoReply
    /\ wSeed = NoReply
    /\ wBroke = NoBreak
    /\ wLate = NoReply

NoJson == [isNull |-> TRUE, text |-> <<>>]
NoColumns == [isNull |-> TRUE, column |-> "", field |-> ""]

JIdle ==
    /\ jtext = <<>>
    /\ jout = NoJson
    /\ jdone = FALSE

PIdle ==
    /\ pText = <<>>
    /\ pPage = 0
    /\ psum = 0
    /\ pfound = FALSE
    /\ pdone = FALSE

CIdle ==
    /\ cParsed = NoColumns
    /\ cRows = <<>>
    /\ csum = 0
    /\ cdone = FALSE

PureIdle == JIdle /\ PIdle /\ CIdle

NoFileUrl == [origin |-> "", path |-> <<>>]
NoHtml == [marker |-> FALSE, payload |-> <<>>, body |-> <<>>]

BIdle ==
    /\ bpc = "idle"
    /\ bBranch = ""
    /\ bParsedUrl = NoFileUrl
    /\ bTextUrl = NoFileUrl
    /\ bOrigin = ""
    /\ bTry = 0
    /\ bCand = 0
    /\ bExtracted = NoFileUrl
    /\ bLog = <<>>
    /\ bBuf = NoFileUrl
    /\ bResult = NoAnalysis

XIdle ==
    /\ xHtml = NoHtml
    /\ xInner = <<>>
    /\ xJsonStr = NoJson
    /\ xdone = FALSE

OthersIdle == AzIdle /\ WIdle /\ PureIdle /\ BIdle /\ XIdle

(***************************************************************************)
(* downloadToBuffer variables stay idle during a round.                    *)
(***************************************************************************)
DlNoUrl == [origin |-> "", path |-> <<>>]
NoErr == [kind |-> "none", cause |-> "", at |-> 0, req |-> "", timedOut |-> FALSE]
NoBytes == [req |-> "", url |-> DlNoUrl]
NoPage == [json |-> DlNoUrl, tag |-> DlNoUrl, meta |-> DlNoUrl]
NoRes == [kind |-> "none", status |-> 0, html |-> FALSE, page |-> NoPage,
          bodyRead |-> FALSE]
NoOut == [kind |-> "none", bytes |-> NoBytes, err |-> NoErr]

DownloadIdle ==
    /\ dpc = "idle"
    /\ m = "GET"
    /\ retries = 0
    /\ retryDelayMs = 0
    /\ attempt = 0
    /\ lastErr = NoErr
    /\ res = NoRes
    /\ reqs = <<>>
    /\ nPrimary = 0
    /\ delays = <<>>
    /\ dout = NoOut

(***************************************************************************)
(* solveQuiz                                                               *)
(***************************************************************************)
Init ==
    /\ pc = "start"
    /\ browser = "none"
    /\ parsed = [isNull |-> TRUE, url |-> NoUrl]
    /\ analysis = NoAnalysis
    /\ attemptLog = <<>>
    /\ finalReply = JsNull
    /\ outcome = NotEnded
    /\ ran = NoRan
    /\ DownloadIdle
    /\ OthersIdle

\* finally { await browser.close(); }
Finally(result) ==
    /\ browser' = "closed"
    /\ outcome' = result
    /\ pc' = "done"

\* const browser = await chromium.launch(...)
Launch ==
    /\ pc = "start"
    /\ \/ /\ browser' = "open"
          /\ pc' = "launched"
          /\ outcome' = outcome
       \/ /\ browser' = browser
          /\ pc' = "done"
          /\ outcome' = Thrown("launch failed")
    /\ UNCHANGED <<parsed, analysis, attemptLog, finalReply, ran, dvars, ovars>>

\* const page = await browser.newPage()   -- before the try
NewPage ==
    /\ pc = "launched"
    /\ \/ /\ pc' = "page"
          /\ outcome' = outcome
       \/ /\ pc' = "done"
          /\ outcome' = Thrown("newPage failed")
    /\ UNCHANGED <<browser, parsed, analysis, attemptLog, finalReply, ran, dvars, ovars>>

\* page.goto, page.content, the base64/body text, extractBalancedJson,
\* JSON.parse: the round now holds `parsed`.
LoadPage ==
    /\ pc = "page"
    /\ \/ /\ \E p \in ParsedChoices : parsed' = p
          /\ pc' = "loaded"
          /\ UNCHANGED <<browser, outcome>>
       \/ /\ Finally(Thrown("page load failed"))
          /\ parsed' = parsed
    /\ UNCHANGED <<analysis, attemptLog, finalReply, ran, dvars, ovars>>

\* result = await analyzeQuiz(...), and the catch that rethrows
Analyze ==
    /\ pc = "loaded"
    /\ \E t \in TaskInputs :
          LET a == AnalyzeQuiz(t) IN
          /\ analysis' = a
          /\ ran' = Ran(t)
          /\ IF a.ok
             THEN /\ pc' = "loop"
                  /\ UNCHANGED <<browser, outcome>>
             ELSE Finally(Thrown(RethrownAnalyzeError(a.err)))
    /\ UNCHANGED <<parsed, attemptLog, finalReply, dvars, ovars>>

\* for (const at of attempts) { const r = await doFetch(at.url, ...)
IssueAttempt ==
    /\ pc = "loop"
    /\ Len(attemptLog) < NumAttempts
    /\ LET at == Attempts(OriginOf(PageUrl), SubmitUrl(parsed, PageUrl))
                    [Len(attemptLog) + 1]
       IN attemptLog' = Append(attemptLog,
              [label |-> at.label, url |-> at.url, method |-> at.method,
               ctype |-> at.ctype, status |-> 0, result |-> Pending,
               raw |-> ""])
    /\ pc' = "fetching"
    /\ UNCHANGED <<browser, parsed, analysis, finalReply, outcome, ran, dvars, ovars>>

\* doFetch settles; the loop body; after the last iteration or the break,
\* the return through finally.
AttemptSettles ==
    /\ pc = "fetching"
    /\ \E o \in NetOutcomes :
          LET r == DoFetch(o)
              n == Len(attemptLog)
              log == [attemptLog EXCEPT
                         ![n].status = r.status,
                         ![n].result = Summary(o, r),
                         ![n].raw = o.raw]
          IN
          /\ attemptLog' = log
          /\ IF r.raised
             THEN /\ finalReply' = finalReply
                  /\ Finally(Thrown(o.kind))
             ELSE IF LoopBreaks(r)
             THEN /\ finalReply' = FinalReplyOf(r)
                  /\ Finally(Returned(ReturnValue(FinalReplyOf(r))))
             ELSE IF n = NumAttempts
             THEN /\ finalReply' = finalReply
                  /\ Finally(Returned(ReturnValue(finalReply)))
             ELSE /\ finalReply' = finalReply
                  /\ pc' = "loop"
                  /\ UNCHANGED <<browser, outcome>>
    /\ UNCHANGED <<parsed, analysis, ran, dvars, ovars>>

Next == Launch \/ NewPage \/ LoadPage \/ Analyze \/ IssueAttempt \/ AttemptSettles

Spec == Init /\ [][Next]_vars

(***************************************************************************)
(* Properties of one round (Spec)                                          *)
(***************************************************************************)
\* The order of the attempts as the specification states it: method, content
\* type, and whether the target is origin + /submit or the fallback URL.
StatedOrder ==
    << <<"POST", "application/json", "origin">>,
       <<"POST", "application/x-www-form-urlencoded", "origin">>,
       <<"POST", "application/json", "fallback">>,
       <<"POST", "application/x-www-form-urlencoded", "fallback">>,
       <<"POST", "text/plain", "fallback">>,
       <<"GET", "", "fallback-query">> >>

Fallback == IF parsed.url # NoUrl THEN parsed.url ELSE PageUrl

TargetKind(u) ==
    IF u = [base |-> [origin |-> PageUrl.origin, path |-> ""], suffix |-> "/submit"]
    THEN "origin"
    ELSE IF u = [base |-> Fallback, suffix |-> ""] THEN "fallback"
    ELSE IF u.base = Fallback /\ u.suffix # "" THEN "fallback-query"
    ELSE "other"

IssuedInStatedOrder ==
    /\ Len(attemptLog) <= Len(StatedOrder)
    /\ \A i \in 1..Len(attemptLog) :
          <<attemptLog[i].method, attemptLog[i].ctype,
            TargetKind(attemptLog[i].url)>> = StatedOrder[i]

C2_ReturnsFirst2xxBody ==
    (pc = "done" /\ Len(attemptLog) >= 1
        /\ attemptLog[Len(attemptLog)].result = "ok")
    => /\ outcome = Returned(IF JsonParses(attemptLog[Len(attemptLog)].raw)
                             THEN JsonParse(attemptLog[Len(attemptLog)].raw)
                             ELSE JsStr(attemptLog[Len(attemptLog)].raw))
       /\ outcome.val # FailureMarker

\* C3: a failed attempt (non-2xx, transport error, timeout abort) never raises
\* out of the round and never ends it while attempts remain; once all six have
\* failed the round returns the failure marker as a normal value.
C3_FailuresContained ==
    /\ Len(attemptLog) >= 1 => outcome.kind # "throw"
    /\ (pc = "done" /\ Len(attemptLog) >= 1) =>
          /\ outcome.kind = "return"
          /\ attemptLog[Len(attemptLog)].result # "ok" =>
                /\ Len(attemptLog) = NumAttempts
                /\ outcome = Returned(FailureMarker)
    /\ (pc = "loop" /\ Len(attemptLog) >= 1) => Len(attemptLog) < NumAttempts

C3_Witness ==
    /\ pc = "done"
    /\ Len(attemptLog) = NumAttempts
    /\ attemptLog[1].result = "non2xx"
    /\ attemptLog[2].result = "transport"
    /\ attemptLog[3].result = "timeout"
    /\ \A i \in 4..NumAttempts : attemptLog[i].result = "non2xx"
    /\ outcome = Returned(FailureMarker)

\* C4: when analyzeQuiz fails (no asset URL, asset download failure, no chart
\* data, OCR disabled) the round issues no submission attempt and ends by
\* throwing that error.
C4_AnalyzeErrorAborts ==
    \A t \in TaskInputs :
        (~AnalyzeQuiz(t).ok /\ analysis = AnalyzeQuiz(t)) =>
            /\ attemptLog = <<>>
            /\ pc = "done"
            /\ outcome = Thrown(AnalyzeQuiz(t).err)
            /\ AnalyzeQuiz(t).err \in AnalyzeErrors

C4_Witness ==
    /\ analysis = Failure("OCR not enabled")
    /\ pc = "done"
    /\ outcome = Thrown("OCR not enabled")
    /\ attemptLog = <<>>

\* C5: a browser that was launched is closed whenever the round has ended,
\* on every exit path, an error of newPage right after the launch included.
C5_BrowserClosedOnExit ==
    (pc = "done" /\ browser # "none") => browser = "closed"

(***************************************************************************)
(* downloadToBuffer (utils/fetcher.js)                                     *)
(***************************************************************************)
MaxRetries == 3
DefaultRetryDelayMs == 500
Methods == {"GET", "POST"}
DelayChoices == {DefaultRetryDelayMs, 40}

RECURSIVE Pow2(_)
Pow2(n) == IF n <= 0 THEN 1 ELSE 2 * Pow2(n - 1)

\* URLs: an origin and a path of segments; a relative reference has no origin.
ReqUrl == [origin |-> "https://files.test", path |-> <<"demo", "page">>]
AbsRef == [origin |-> "https://cdn.test", path |-> <<"a.opus">>]
AbsRef2 == [origin |-> "https://cdn.test", path |-> <<"og.mp3">>]
RelRef == [origin |-> "", path |-> <<"track.opus">>]

\* new URL(ref, base): an absolute reference stands, a relative one replaces
\* the last segment of the base path.
Resolve(ref, base) ==
    IF ref.origin # "" THEN ref
    ELSE [origin |-> base.origin,
          path |-> SubSeq(base.path, 1, Len(base.path) - 1) \o ref.path]

\* What the three heuristics find in an HTML page: the url field of an inline
\* JSON blob, the src of an <audio>/<source> tag, an og: meta tag.
HtmlPages ==
    {NoPage,
     [json |-> AbsRef, tag |-> DlNoUrl, meta |-> DlNoUrl],
     [json |-> DlNoUrl, tag |-> RelRef, meta |-> DlNoUrl],
     [json |-> DlNoUrl, tag |-> DlNoUrl, meta |-> AbsRef2],
     [json |-> AbsRef, tag |-> RelRef, meta |-> AbsRef2]}

\* tryExtractUrlFromJsonBlob() || tryExtractFromAudioTags() || tryExtractFromMeta()
\* and the final new URL(extracted, currentUrl).
Extracted(page, base) ==
    LET tag == IF page.tag = DlNoUrl THEN DlNoUrl ELSE Resolve(page.tag, base)
        meta == IF page.meta = DlNoUrl THEN DlNoUrl ELSE Resolve(page.meta, base)
        first == IF page.json # DlNoUrl THEN page.json
                 ELSE IF tag # DlNoUrl THEN tag
                 ELSE meta
    IN IF first = DlNoUrl THEN DlNoUrl ELSE Resolve(first, base)

\* What the network does to one request: the abort of the timeoutMs timer, a
\* transport error, or a response (status, whether its content type is
\* text/html, the page's links, whether its body can be read to the end).
FetchOutcomes ==
    [kind : {"timeout", "neterr"}, status : {0}, html : {FALSE}, page : {NoPage},
     bodyRead : {FALSE}]
    \cup [kind : {"resp"}, status : {401, 404, 405}, html : {FALSE},
          page : {NoPage}, bodyRead : {TRUE}]
    \cup [kind : {"resp"}, status : {200}, html : {FALSE}, page : {NoPage},
          bodyRead : BOOLEAN]
    \cup [kind : {"resp"}, status : {200}, html : {TRUE}, page : HtmlPages,
          bodyRead : {TRUE}]
    \cup [kind : {"resp"}, status : {200}, html : {TRUE}, page : {NoPage},
          bodyRead : {FALSE}]

Err(kind, cause, at, req, timedOut) ==
    [kind |-> kind, cause |-> cause, at |-> at, req |-> req,
     timedOut |-> timedOut]

\* catch (err) { throw new Error(`Network error fetching ...:
\*   ${err.name === 'AbortError' ? 'timeout' : err.message}`) }
PrimaryFetchError(o, at) ==
    Err("NetworkError", IF o.kind = "timeout" THEN "timeout" ELSE "message",
        at, "primary", o.kind = "timeout")

\* What fetchWithTimeout itself raises: the AbortError of the fired timer, or
\* the transport's own error.
RawFetchError(o, at, req) ==
    IF o.kind = "timeout"
    THEN Err("AbortError", "aborted", at, req, TRUE)
    ELSE Err("FetchError", "message", at, req, FALSE)

StatusText(status) ==
    CASE status = 401 -> "401" [] status = 404 -> "404" [] status = 405 -> "405"
      [] OTHER -> "other"

\* if (!res.ok) { ... throw new Error(`Download failed: ...`) }
StatusError(status, at, req) ==
    Err(IF status \in {401, 403} THEN "DownloadFailedProtected"
        ELSE "DownloadFailed", StatusText(status), at, req, FALSE)

FollowStatusError(status, at) ==
    Err("FollowFailed", StatusText(status), at, "follow", FALSE)
\* res.text() or res.arrayBuffer() rejects: the transport's error, as it is.
BodyReadError(at, req) == Err("FetchError", "body", at, req, FALSE)
HtmlNoAssetError(at, req) == Err("HtmlNoAsset", "", at, req, FALSE)
UnknownError == Err("Unknown", "", 0, "", FALSE)

Request(type, method, url) ==
    [type |-> type, method |-> method, url |-> url, ms |-> 0, status |-> 0,
     html |-> FALSE, bodyRead |-> FALSE]
Delay(ms) ==
    [type |-> "delay", method |-> "", url |-> DlNoUrl, ms |-> ms, status |-> 0,
     html |-> FALSE, bodyRead |-> FALSE]
\* The request log, with what the last request met: the status (-1: no
\* response), the content type, whether the body can be read.
Settled(rq, o) ==
    [rq EXCEPT ![Len(rq)].status = IF o.kind = "resp" THEN o.status ELSE -1,
               ![Len(rq)].html = o.html,
               ![Len(rq)].bodyRead = o.bodyRead]

\* The bytes of a response are those its request was served.
BytesOf(rq) == [req |-> rq[Len(rq)].type, url |-> rq[Len(rq)].url]

\* A guard that forgets the method.
RetriesEvery405(status, method) == status = 405
\* if (res.status === 405 && m !== 'GET')
RetriesAsGet(status, method) == status = 405 /\ method # "GET"

\* lastErr = lastErr || err
KeepsFirstErr(prev, err) == IF prev = NoErr THEN err ELSE prev
\* lastErr = err
Caught(prev, err) == err

\* if (attempt < retries)
AttemptsLeft(at, n) == at < n

\* retryDelayMs * Math.pow(2, attempt)
BackoffFromAttempt(base, at) == base * Pow2(at)
\* retryDelayMs * Math.pow(2, attempt - 1)
Backoff(base, at) == base * Pow2(at - 1)

\* A follow-up whose content type is inspected again.
FollowAcceptedIfNotHtml(o) == Is2xx(o.status) /\ ~o.html
\* if (!followRes.ok) throw ...; return Buffer.from(await followRes.arrayBuffer())
FollowAccepted(o) == Is2xx(o.status)

\* throw lastErr || new Error('Unknown error in downloadToBuffer')
FallThroughError(err) == IF err = NoErr THEN UnknownError ELSE err

RoundIdle ==
    /\ pc = "idle"
    /\ browser = "none"
    /\ parsed = [isNull |-> TRUE, url |-> NoUrl]
    /\ analysis = NoAnalysis
    /\ attemptLog = <<>>
    /\ finalReply = JsNull
    /\ outcome = NotEnded
    /\ ran = NoRan

InitDownload ==
    /\ RoundIdle
    /\ OthersIdle
    /\ dpc = "loop"
    /\ m \in Methods
    /\ retries \in 0..MaxRetries
    /\ retryDelayMs \in DelayChoices
    /\ attempt = 0
    /\ lastErr = NoErr
    /\ res = NoRes
    /\ reqs = <<>>
    /\ nPrimary = 0
    /\ delays = <<>>
    /\ dout = NoOut

\* return Buffer.from(arrBuf)
DlReturn(rq) ==
    /\ dout' = [kind |-> "return", bytes |-> BytesOf(rq), err |-> NoErr]
    /\ dpc' = "done"
    /\ reqs' = rq
    /\ UNCHANGED <<lastErr, delays>>

\* catch (err) { lastErr = err; if (attempt < retries) { delay; continue }
\*               throw lastErr }
DlCatch(rq, err) ==
    LET e == Caught(lastErr, err) IN
    /\ lastErr' = e
    /\ IF AttemptsLeft(attempt, retries)
       THEN /\ reqs' = Append(rq, Delay(Backoff(retryDelayMs, attempt)))
            /\ delays' = Append(delays, Backoff(retryDelayMs, attempt))
            /\ dpc' = "backoff"
            /\ dout' = dout
       ELSE /\ reqs' = rq
            /\ delays' = delays
            /\ dpc' = "done"
            /\ dout' = [kind |-> "throw", bytes |-> NoBytes, err |-> e]

\* From `if (!res.ok)` on, with the response the attempt now holds.
DlProcess(rq, o) ==
    /\ res' = o
    /\ IF ~Is2xx(o.status)
       THEN DlCatch(rq, StatusError(o.status, attempt, rq[Len(rq)].type))
       ELSE IF ~o.bodyRead
       THEN DlCatch(rq, BodyReadError(attempt, rq[Len(rq)].type))
       ELSE IF o.html
       THEN IF Extracted(o.page, ReqUrl) # DlNoUrl
            THEN /\ reqs' = Append(rq, Request("follow", "GET",
                                               Extracted(o.page, ReqUrl)))
                 /\ dpc' = "follow"
                 /\ UNCHANGED <<lastErr, delays, dout>>
            ELSE DlCatch(rq, HtmlNoAssetError(attempt, rq[Len(rq)].type))
       ELSE DlReturn(rq)

\* while (attempt < retries) { attempt += 1; ... fetchWithTimeout(currentUrl, options)
DlAttempt ==
    /\ dpc = "loop"
    /\ attempt < retries
    /\ attempt' = attempt + 1
    /\ reqs' = <<Request("primary", m, ReqUrl)>>
    /\ nPrimary' = nPrimary + 1
    /\ dpc' = "primary"
    /\ res' = NoRes
    /\ UNCHANGED <<m, retries, retryDelayMs, lastErr, delays, dout, svars, ovars>>

\* The loop is left without an attempt: the final throw.
DlFallThrough ==
    /\ dpc = "loop"
    /\ ~(attempt < retries)
    /\ dout' = [kind |-> "throw", bytes |-> NoBytes,
                err |-> FallThroughError(lastErr)]
    /\ dpc' = "done"
    /\ UNCHANGED <<m, retries, retryDelayMs, attempt, lastErr, res, reqs,
                   nPrimary, delays, svars, ovars>>

\* The primary request settles.
DlPrimarySettles ==
    /\ dpc = "primary"
    /\ \E o \in FetchOutcomes :
          LET rq == Settled(reqs, o) IN
          IF o.kind # "resp"
          THEN /\ DlCatch(rq, PrimaryFetchError(o, attempt))
               /\ res' = res
          ELSE IF RetriesAsGet(o.status, m)
          THEN /\ res' = o
               /\ reqs' = Append(rq, Request("get405", "GET", ReqUrl))
               /\ dpc' = "retry405"
               /\ UNCHANGED <<lastErr, delays, dout>>
          ELSE DlProcess(rq, o)
    /\ UNCHANGED <<m, retries, retryDelayMs, attempt, nPrimary, svars, ovars>>

\* The GET retry after a 405 settles: res = retryRes.
DlRetrySettles ==
    /\ dpc = "retry405"
    /\ \E o \in FetchOutcomes :
          LET rq == Settled(reqs, o) IN
          IF o.kind # "resp"
          THEN /\ DlCatch(rq, RawFetchError(o, attempt, "get405"))
               /\ res' = res
          ELSE DlProcess(rq, o)
    /\ UNCHANGED <<m, retries, retryDelayMs, attempt, nPrimary, svars, ovars>>

\* The follow-up GET of the extracted URL settles.
DlFollowSettles ==
    /\ dpc = "follow"
    /\ \E o \in FetchOutcomes :
          LET rq == Settled(reqs, o) IN
          IF o.kind # "resp"
          THEN /\ DlCatch(rq, RawFetchError(o, attempt, "follow"))
               /\ res' = res
          ELSE IF ~FollowAccepted(o)
          THEN /\ DlCatch(rq, FollowStatusError(o.status, attempt))
               /\ res' = res
          ELSE IF ~o.bodyRead
          THEN /\ DlCatch(rq, BodyReadError(attempt, "follow"))
               /\ res' = res
          ELSE /\ DlReturn(rq)
               /\ res' = res
    /\ UNCHANGED <<m, retries, retryDelayMs, attempt, nPrimary, svars, ovars>>

\* await new Promise((r) => setTimeout(r, delay)); continue
DlBackoffElapsed ==
    /\ dpc = "backoff"
    /\ dpc' = "loop"
    /\ UNCHANGED <<m, retries, retryDelayMs, attempt, lastErr, res, reqs,
                   nPrimary, delays, dout, svars, ovars>>

NextDownload ==
    \/ DlAttempt
    \/ DlFallThrough
    \/ DlPrimarySettles
    \/ DlRetrySettles
    \/ DlFollowSettles
    \/ DlBackoffElapsed

SpecDownload == InitDownload /\ [][NextDownload]_vars

(***************************************************************************)
(* Properties of one download (SpecDownload)                               *)
(***************************************************************************)
Types(rq) == [i \in 1..Len(rq) |-> rq[i].type]
CountType(rq, t) == Cardinality({i \in 1..Len(rq) : rq[i].type = t})

\* C6: with retries = N >= 1 and every attempt failing, exactly N primary
\* requests are made, the delay after the k-th failed attempt is
\* retryDelayMs * 2^(k-1) for k < N, none follows the N-th, and no delay lies
\* between a primary request and its 405 GET retry or its follow-up GET.
C6_AttemptsAndBackoff ==
    /\ nPrimary = attempt
    /\ nPrimary <= retries
    /\ (dout.kind = "throw" /\ retries >= 1) =>
          /\ nPrimary = retries
          /\ delays = [k \in 1..(retries - 1) |-> retryDelayMs * Pow2(k - 1)]
          /\ CountType(reqs, "delay") = 0
    /\ \A i \in 1..Len(reqs) :
          /\ reqs[i].type = "delay" =>
                /\ i = Len(reqs)
                /\ dpc \in {"backoff", "loop"}
                /\ reqs[i].ms = retryDelayMs * Pow2(attempt - 1)
                /\ Len(delays) = attempt
          /\ reqs[i].type \in {"get405", "follow"} =>
                /\ i > 1
                /\ reqs[i - 1].type \in {"primary", "get405"}
    /\ CountType(reqs, "primary") = (IF attempt >= 1 THEN 1 ELSE 0)
    /\ \A i \in 1..Len(reqs) :
          reqs[i].type = "primary" =>
              /\ i = 1
              /\ reqs[i].url = ReqUrl
              /\ reqs[i].method = m

C6_Witness ==
    /\ dout.kind = "throw"
    /\ retries = 3
    /\ retryDelayMs = 500
    /\ nPrimary = 3
    /\ delays = <<500, 1000>>
    /\ Types(reqs) = <<"primary", "get405", "follow">>

\* C7 as stated: whenever the download fails, for every value of retries, the
\* error raised is the error of the last attempt made, never a generic one.
C7_RaisesLastAttemptError ==
    dout.kind = "throw" =>
        /\ attempt >= 1
        /\ dout.err.at = attempt
        /\ dout.err.kind # "Unknown"

\* C7 amended: for retries >= 1 a failed download raises the error of the
\* last attempt made, which is attempt number retries; for retries = 0 no
\* attempt is made and the generic 'Unknown error' is raised.
C7_LastErrorOrGeneric ==
    dout.kind = "throw" =>
        IF retries >= 1
        THEN /\ attempt = retries
             /\ dout.err.at = attempt
             /\ dout.err.kind \notin {"Unknown", "none"}
             /\ dout.err = lastErr
        ELSE /\ nPrimary = 0
             /\ dout.err = UnknownError

C7_Witness ==
    /\ dout.kind = "throw"
    /\ retries = 3
    /\ dout.err.at = 3
    /\ dout.err.kind = "HtmlNoAsset"

\* C8: within one attempt with a non-GET method a 405 response causes exactly
\* one more request, a GET of the same URL, and that request's response is
\* the one the attempt goes on with (its bytes are returned if it is 200, not
\* HTML, and read to the end); a 405 answer to a GET causes no further request
\* and fails the attempt.
C8_Retry405Once ==
    /\ CountType(reqs, "get405") <= 1
    /\ \A i \in 1..Len(reqs) :
          /\ reqs[i].type = "get405" =>
                /\ i = 2
                /\ m # "GET"
                /\ reqs[1].status = 405
                /\ reqs[i].method = "GET"
                /\ reqs[i].url = reqs[1].url
                /\ (reqs[i].status = 200 /\ ~reqs[i].html /\ reqs[i].bodyRead) =>
                      /\ dpc = "done"
                      /\ dout = [kind |-> "return",
                                 bytes |-> [req |-> "get405", url |-> ReqUrl],
                                 err |-> NoErr]
          /\ (reqs[i].status = 405 /\ reqs[i].method # "GET") =>
                /\ Len(reqs) >= i + 1
                /\ reqs[i + 1].type = "get405"
          /\ (reqs[i].status = 405 /\ reqs[i].method = "GET") =>
                /\ lastErr.at = attempt
                /\ lastErr.cause = "405"
                /\ lastErr.req = reqs[i].type
                /\ reqs[i].type \in {"primary", "get405"} =>
                      lastErr = StatusError(405, attempt, reqs[i].type)
                /\ dout.kind # "return"
                /\ \A j \in (i + 1)..Len(reqs) : reqs[j].type = "delay"

C8_Witness ==
    /\ m = "POST"
    /\ Len(reqs) = 2
    /\ reqs[1].status = 405
    /\ reqs[2].type = "get405"
    /\ reqs[2].status = 200
    /\ dout.kind = "return"
    /\ dout.bytes.req = "get405"

\* C9: a successful HTML response in which an asset URL is found is followed
\* by exactly one GET of that URL, a relative URL resolved against the request
\* URL, and the bytes of a successful follow-up response (2xx, read to the
\* end) are returned whatever its content type; an HTML response without asset URL fails the attempt with
\* the 'Downloaded HTML but could not find a direct asset URL' error; a
\* successful response that is not HTML is returned with no follow-up.
C9_HtmlUnwrap ==
    /\ CountType(reqs, "follow") <= 1
    /\ Extracted([json |-> DlNoUrl, tag |-> RelRef, meta |-> DlNoUrl], ReqUrl)
          = [origin |-> "https://files.test", path |-> <<"demo", "track.opus">>]
    /\ (res.status = 200 /\ res.html /\ Extracted(res.page, ReqUrl) # DlNoUrl) =>
          /\ res.bodyRead
          /\ CountType(reqs, "follow") = 1
          /\ \A i \in 1..Len(reqs) :
                reqs[i].type = "follow" =>
                   /\ reqs[i].method = "GET"
                   /\ reqs[i].url = Extracted(res.page, ReqUrl)
                   /\ reqs[i - 1].status = 200
                   /\ reqs[i - 1].type \in {"primary", "get405"}
                   /\ (Is2xx(reqs[i].status) /\ reqs[i].bodyRead) =>
                         /\ dpc = "done"
                         /\ dout = [kind |-> "return",
                                    bytes |-> [req |-> "follow",
                                               url |-> reqs[i].url],
                                    err |-> NoErr]
    /\ (res.status = 200 /\ res.html /\ res.bodyRead
           /\ Extracted(res.page, ReqUrl) = DlNoUrl) =>
          /\ CountType(reqs, "follow") = 0
          /\ lastErr.kind = "HtmlNoAsset"
          /\ lastErr.at = attempt
          /\ dout.kind # "return"
    /\ (res.status = 200 /\ ~res.html /\ res.bodyRead) =>
          /\ CountType(reqs, "follow") = 0
          /\ dpc = "done"
          /\ dout.kind = "return"
          /\ dout.bytes = [req |-> reqs[Len(reqs)].type, url |-> ReqUrl]
          /\ dout.bytes.req \in {"primary", "get405"}
    /\ CountType(reqs, "follow") = 1 =>
          (res.status = 200 /\ res.html /\ Extracted(res.page, ReqUrl) # DlNoUrl)

C9_Witness ==
    /\ res.page = [json |-> DlNoUrl, tag |-> RelRef, meta |-> DlNoUrl]
    /\ Len(reqs) = 2
    /\ reqs[2].type = "follow"
    /\ reqs[2].html
    /\ dout.kind = "return"
    /\ dout.bytes = [req |-> "follow",
                     url |-> [origin |-> "https://files.test",
                              path |-> <<"demo", "track.opus">>]]

\* C10: a request that exceeds timeoutMs - the primary request, the GET retry
\* after a 405, the follow-up GET - is aborted and the failure is reported as
\* a network error whose cause is 'timeout'.
C10_TimeoutIsNetworkTimeout ==
    lastErr.timedOut =>
        /\ lastErr.kind = "NetworkError"
        /\ lastErr.cause = "timeout"

(***************************************************************************)
(* analyzeQuiz: which branch a task description and a page text select.    *)
(*                                                                         *)
(* A page text is the set of words it contains and its numeric tokens in   *)
(* order of appearance; the words are lower-case and carry no digit.  A    *)
(* url is the name and the extension of its last path segment.             *)
(***************************************************************************)
Vocab == {"pdf", "page", "csv", "column", "image", "audio", "chart"}

\* needle is a substring of word, for the needles the code looks for
SubstringOf(needle, word) == needle = word

\* text.includes(needle), /needle/i.test(text)
Includes(text, needle) == \E w \in text.words : SubstringOf(needle, w)

NumTokens == {<<>>, <<"42", "7">>}

PageTexts == [words : SUBSET Vocab, nums : NumTokens]

AzUrls ==
    {NoAzUrl,
     [name |-> "file", ext |-> "pdf"],
     [name |-> "data", ext |-> "csv"],
     [name |-> "demo-audio", ext |-> "wav"],
     [name |-> "audio", ext |-> "pdf"],
     [name |-> "audiobook", ext |-> "csv"],
     [name |-> "pic", ext |-> "png"]}

\* parsed.url is truthy
HasUrl(p) == ~p.isNull /\ p.url # NoAzUrl

\* /\baudio\b|demo-audio/i.test(url)
AudioKeyword(u) == u.name \in {"audio", "demo-audio"}

\* url.toLowerCase().endsWith('.' + ext)
EndsWith(u, ext) == u.ext = ext

AudioExtensions == {"mp3", "wav", "m4a", "ogg", "opus", "m4b", "flac"}
ImageExtensions == {"png", "jpg", "jpeg", "bmp", "tiff"}

TaskNames == {"", "pdf-sum", "image-ocr"}
TypeNames == {"", "csv-sum", "audio-transcribe", "chart"}
AnswerChoices == {Undefined, JsNum("0"), JsStr("forty-two")}

\* The task descriptions: null, or an object with these fields.
TaskDescriptions ==
    {NoParsed} \cup
    [isNull : {FALSE}, task : TaskNames, type : TypeNames, url : AzUrls,
     makeChart : BOOLEAN, answer : AnswerChoices]

\* inferTaskFromText(text); "" stands for null
InferTaskFromText(text) ==
    IF Includes(text, "pdf") /\ Includes(text, "page") THEN "pdf-sum"
    ELSE IF Includes(text, "csv") \/ Includes(text, "column") THEN "csv-sum"
    ELSE IF Includes(text, "image") \/ Includes(text, "ocr") THEN "image-ocr"
    ELSE IF Includes(text, "plot") \/ Includes(text, "chart") THEN "chart"
    ELSE IF Includes(text, "audio") \/ Includes(text, "transcribe")
         THEN "audio-transcribe"
    ELSE ""

\* parsed?.task || parsed?.type || inferTaskFromText(pageText)
TaskOf(p, text) ==
    IF ~p.isNull /\ p.task # "" THEN p.task
    ELSE IF ~p.isNull /\ p.type # "" THEN p.type
    ELSE InferTaskFromText(text)

LooksLikePdfTask(p, text) ==
    IF HasUrl(p) /\ AudioKeyword(p.url) THEN FALSE
    ELSE IF p.isNull THEN Includes(text, "pdf") /\ ~Includes(text, "audio")
    ELSE (HasUrl(p) /\ EndsWith(p.url, "pdf")) \/ Includes(text, "pdf")

LooksLikeCsvTask(p, text) ==
    IF HasUrl(p) /\ AudioKeyword(p.url) THEN FALSE
    ELSE IF p.isNull
         THEN Includes(text, "csv") \/ Includes(text, "comma separated")
    ELSE \/ HasUrl(p) /\ EndsWith(p.url, "csv")
         \/ Includes(text, "csv")
         \/ Includes(text, "comma separated")

TextLooksAudio(text) ==
    \E w \in {"audio", "mp3", "wav", "transcribe", "opus"} : Includes(text, w)

LooksLikeAudioTask(p, text) ==
    IF p.isNull THEN TextLooksAudio(text)
    ELSE \/ HasUrl(p) /\ p.url.ext \in AudioExtensions
         \/ HasUrl(p) /\ AudioKeyword(p.url)
         \/ TextLooksAudio(text)

TextLooksImage(text) ==
    \E w \in {"image", "photo", "scan"} : Includes(text, w)

LooksLikeImageTask(p, text) ==
    IF p.isNull THEN TextLooksImage(text)
    ELSE (HasUrl(p) /\ p.url.ext \in ImageExtensions) \/ TextLooksImage(text)

\* The guard of each branch, as analyzeQuiz writes it.
Guard(b, p, text) ==
    CASE b = "pdf-sum" ->
            LooksLikePdfTask(p, text) \/ TaskOf(p, text) = "pdf-sum"
      [] b = "csv-sum" ->
            LooksLikeCsvTask(p, text) \/ TaskOf(p, text) = "csv-sum"
      [] b = "audio-transcribe" ->
            LooksLikeAudioTask(p, text) \/ TaskOf(p, text) = "audio-transcribe"
      [] b = "image-ocr" ->
            LooksLikeImageTask(p, text) \/ TaskOf(p, text) = "image-ocr"
      [] b = "chart" ->
            (~p.isNull /\ p.makeChart) \/ TaskOf(p, text) = "chart"
      [] b = "passthrough" -> ~p.isNull /\ p.answer # Undefined
      [] OTHER -> TRUE

\* The chain of if-statements with the image test moved before the audio one.
ImageBeforeAudio(p, text) ==
    IF Guard("pdf-sum", p, text) THEN "pdf-sum"
    ELSE IF Guard("csv-sum", p, text) THEN "csv-sum"
    ELSE IF Guard("image-ocr", p, text) THEN "image-ocr"
    ELSE IF Guard("audio-transcribe", p, text) THEN "audio-transcribe"
    ELSE IF Guard("chart", p, text) THEN "chart"
    ELSE IF Guard("passthrough", p, text) THEN "passthrough"
    ELSE "unknown"

\* The chain of if-statements of analyzeQuiz, each ending in return or throw.
BranchTaken(p, text) ==
    IF Guard("pdf-sum", p, text) THEN "pdf-sum"
    ELSE IF Guard("csv-sum", p, text) THEN "csv-sum"
    ELSE IF Guard("audio-transcribe", p, text) THEN "audio-transcribe"
    ELSE IF Guard("image-ocr", p, text) THEN "image-ocr"
    ELSE IF Guard("chart", p, text) THEN "chart"
    ELSE IF Guard("passthrough", p, text) THEN "passthrough"
    ELSE "unknown"

\* (pageText.match(/-?\d+(\.\d+)?/) || [null])[0]
FirstNumber(text) ==
    IF text.nums = <<>> THEN JsNull ELSE JsNum(text.nums[1])

\* What the branch returns or throws.
BranchResult(b, p, text, env) ==
    CASE b = "passthrough" -> [ok |-> TRUE, answer |-> p.answer, err |-> ""]
      [] b = "unknown" ->
            [ok |-> TRUE,
             answer |-> Coalesce(FirstNumber(text), JsStr("unable to determine")),
             err |-> ""]
      [] OTHER ->
            LET r == AnalyzeQuiz([branch |-> b, hasUrl |-> HasUrl(p),
                                  dlOk |-> env, hasData |-> env])
            IN [ok |-> r.ok, answer |-> JsStr(r.answer), err |-> r.err]

InitAnalyze ==
    /\ RoundIdle
    /\ DownloadIdle
    /\ BIdle
    /\ XIdle
    /\ WIdle
    /\ PureIdle
    /\ azpc = "called"
    /\ azParsed \in TaskDescriptions
    /\ azText \in PageTexts
    /\ azEnv \in BOOLEAN
    /\ azRan = <<>>
    /\ azResult = AzNoResult

NotAz == <<svars, dvars, wvars, jvars, pvars, cvars, bvars, xvars>>

\* analyzeQuiz({ parsed, pageText, baseUrl })
AzAnalyze ==
    /\ azpc = "called"
    /\ LET b == BranchTaken(azParsed, azText)
       IN /\ azRan' = Append(azRan, b)
          /\ azResult' = BranchResult(b, azParsed, azText, azEnv)
    /\ azpc' = "done"
    /\ UNCHANGED <<azParsed, azText, azEnv, NotAz>>

NextAnalyze == AzAnalyze

SpecAnalyze == InitAnalyze /\ [][NextAnalyze]_vars

(***************************************************************************)
(* Claims about analyzeQuiz's choice of branch.                            *)
(***************************************************************************)
FileTasks == {"pdf-sum", "csv-sum", "audio-transcribe", "image-ocr"}

\* parsed.task || parsed.type: the explicit field, "" when there is none
NamedTask(p) == IF p.isNull THEN "" ELSE IF p.task # "" THEN p.task ELSE p.type

\* The order the branches are stated in.
BranchOrder ==
    <<"pdf-sum", "csv-sum", "audio-transcribe", "image-ocr", "chart",
      "passthrough", "unknown">>

\* The first branch of BranchOrder whose guard holds.
FirstMatch(p, text) ==
    BranchOrder[CHOOSE i \in 1..Len(BranchOrder) :
                    /\ Guard(BranchOrder[i], p, text)
                    /\ \A j \in 1..(i - 1) : ~Guard(BranchOrder[j], p, text)]

\* C11: a task description whose url contains the word audio or the
\* substring demo-audio never runs the pdf-sum branch nor the csv-sum branch,
\* whatever the page text says and also without an explicit task or type.
C11_AudioUrlNeverPdfNorCsv ==
    (azpc = "done" /\ HasUrl(azParsed) /\ AudioKeyword(azParsed.url))
        => \A i \in 1..Len(azRan) : azRan[i] \notin {"pdf-sum", "csv-sum"}

\* C12: an explicit task or type field naming pdf-sum, csv-sum,
\* audio-transcribe or image-ocr decides the branch that runs, whatever the
\* page text and the url suggest.
C12_ExplicitFieldDecides ==
    (azpc = "done" /\ NamedTask(azParsed) \in FileTasks)
        => azRan = <<NamedTask(azParsed)>>

\* C13: exactly one branch runs per call, the first in the order PDF, CSV,
\* audio, image, chart, passthrough, unknown whose guard holds; passthrough
\* returns parsed.answer as it is, falsy values included; unknown returns the
\* first numeric token of the page text, or 'unable to determine'.
C13_FirstMatchWins ==
    azpc = "done" =>
        /\ azRan = <<FirstMatch(azParsed, azText)>>
        /\ azRan[1] = "passthrough" =>
              azResult = [ok |-> TRUE, answer |-> azParsed.answer, err |-> ""]
        /\ azRan[1] = "unknown" =>
              /\ azResult.ok
              /\ azResult.answer =
                    IF azText.nums = <<>> THEN JsStr("unable to determine")
                    ELSE JsNum(Head(azText.nums))

\* Both the audio guard and the image guard hold, and the audio branch ran.
C13_Witness ==
    /\ azpc = "done"
    /\ Guard("audio-transcribe", azParsed, azText)
    /\ Guard("image-ocr", azParsed, azText)
    /\ azRan = <<"audio-transcribe">>

(***************************************************************************)
(* The webhook's background loop (server.js): rounds of solveQuiz, each    *)
(* raced against a timer, following the url of the reply.                  *)
(*                                                                         *)
(* Time is Date.now() - start in ms and advances in steps of TickMs, or to *)
(* the instant the pending timer fires when that comes first.  A timer     *)
(* whose round has already settled fires without effect and is left out.   *)
(***************************************************************************)
SOLVER_DEADLINE_MS == 170000
MaxRounds == 10
TickMs == 9970
MaxNow == 200000

Emails == {"a@quiz.test", "b@quiz.test"}
Secrets == {"s3cret"}
FirstUrl == "https://quiz.test/demo"
NextUrlA == "https://quiz.test/next"
NextUrlB == "https://quiz.test/other"

\* What solveQuiz can return to the loop.
Replies ==
    {JsObj("{\"correct\":true,\"url\":\"https://quiz.test/next\"}"),
     JsObj("{\"correct\":false,\"url\":\"https://quiz.test/other\"}"),
     JsObj("{\"correct\":true,\"url\":\"\"}"),
     JsObj("{\"correct\":true}"),
     FailureMarker,
     JsStr("OK")}

\* reply.url; "" stands for undefined as well as for the empty string
ReplyUrl(reply) ==
    CASE reply = JsObj("{\"correct\":true,\"url\":\"https://quiz.test/next\"}")
            -> NextUrlA
      [] reply = JsObj("{\"correct\":false,\"url\":\"https://quiz.test/other\"}")
            -> NextUrlB
      [] OTHER -> ""

\* The loop that stays on its url when the reply brings none.
StaysOnUrl(reply, cur) ==
    IF Truthy(reply) /\ reply.t = "obj" /\ ReplyUrl(reply) # ""
    THEN ReplyUrl(reply)
    ELSE cur

\* if (reply && typeof reply === 'object' && reply.url) currentUrl = reply.url;
\* else currentUrl = null;          "" stands for null
NextUrl(reply, cur) ==
    IF Truthy(reply) /\ reply.t = "obj" /\ ReplyUrl(reply) # ""
    THEN ReplyUrl(reply)
    ELSE ""

\* The while condition without the deadline test.
ContinuesPastDeadline(url, elapsed, round) == url # "" /\ round < MaxRounds

\* while (currentUrl && (Date.now() - start) < SOLVER_DEADLINE_MS && round < 10)
Continues(url, elapsed, round) ==
    url # "" /\ elapsed < SOLVER_DEADLINE_MS /\ round < MaxRounds

\* Math.max(1000, SOLVER_DEADLINE_MS - timeSoFar)
TimeLeft(timeSoFar) ==
    IF SOLVER_DEADLINE_MS - timeSoFar > 1000
    THEN SOLVER_DEADLINE_MS - timeSoFar
    ELSE 1000

\* The catch block that goes on with the loop.
ContinuesAfterFailure == "loop"

\* catch (err) { console.error(...); break; }
AfterFailure == "finished"

InitWebhook ==
    /\ RoundIdle
    /\ DownloadIdle
    /\ BIdle
    /\ XIdle
    /\ AzIdle
    /\ PureIdle
    /\ wpc = "loop"
    /\ wNow = 0
    /\ wEmail \in Emails
    /\ wSecret \in Secrets
    /\ wCurrentUrl = FirstUrl
    /\ wRound = 0
    /\ wTimerAt = 0
    /\ wStarted = 0
    /\ wCur = NoCall
    /\ wRunning = {}
    /\ wReply = NoReply
    /\ wSeed = NoReply
    /\ wBroke = NoBreak
    /\ wLate = NoReply

NotWebhook == <<svars, dvars, azvars, jvars, pvars, cvars, bvars, xvars>>

\* The while condition holds: solveQuiz is called and the timer is set.
WStartRound ==
    /\ wpc = "loop"
    /\ Continues(wCurrentUrl, wNow, wRound)
    /\ wTimerAt' = wNow + TimeLeft(wNow)
    /\ wStarted' = wStarted + 1
    /\ wCur' = [url |-> wCurrentUrl, email |-> wEmail, secret |-> wSecret,
                at |-> wNow]
    /\ wRunning' = wRunning \cup {wStarted + 1}
    /\ wSeed' = wReply
    /\ wpc' = "awaiting"
    /\ UNCHANGED <<wNow, wEmail, wSecret, wCurrentUrl, wRound, wReply, wBroke,
                   wLate, NotWebhook>>

\* The while condition fails: 'Solver background task finished'.
WLoopExit ==
    /\ wpc = "loop"
    /\ ~Continues(wCurrentUrl, wNow, wRound)
    /\ wpc' = "finished"
    /\ UNCHANGED <<wNow, wEmail, wSecret, wCurrentUrl, wRound, wTimerAt,
                   wStarted, wCur, wRunning, wReply, wSeed, wBroke, wLate,
                   NotWebhook>>

\* The round's promise wins the race with a value.
WRoundReturns ==
    /\ wpc = "awaiting"
    /\ \E reply \in Replies :
          /\ wReply' = reply
          /\ wCurrentUrl' = NextUrl(reply, wCurrentUrl)
    /\ wRound' = wRound + 1
    /\ wRunning' = wRunning \ {wStarted}
    /\ wpc' = "loop"
    /\ UNCHANGED <<wNow, wEmail, wSecret, wTimerAt, wStarted, wCur, wSeed,
                   wBroke, wLate, NotWebhook>>

\* The round's promise wins the race with a rejection.
WRoundThrows ==
    /\ wpc = "awaiting"
    /\ wRunning' = wRunning \ {wStarted}
    /\ wBroke' = [why |-> "threw", started |-> wStarted]
    /\ wpc' = AfterFailure
    /\ UNCHANGED <<wNow, wEmail, wSecret, wCurrentUrl, wRound, wTimerAt,
                   wStarted, wCur, wReply, wSeed, wLate, NotWebhook>>

\* A timer whose callback is never run.
TimerNeverDue(now, at) == FALSE

\* setTimeout(() => rej(new Error('solver round timeout')), timeLeft): the
\* callback runs once timeLeft ms have passed
TimerDue(now, at) == now >= at

\* The timer wins the race: the round goes on running, nobody awaits it.
WTimerFires ==
    /\ wpc = "awaiting"
    /\ TimerDue(wNow, wTimerAt)
    /\ wBroke' = [why |-> "timeout", started |-> wStarted]
    /\ wpc' = AfterFailure
    /\ UNCHANGED <<wNow, wEmail, wSecret, wCurrentUrl, wRound, wTimerAt,
                   wStarted, wCur, wRunning, wReply, wSeed, wLate, NotWebhook>>

\* An abandoned round settles, with a reply or with an error.
WLateSettle ==
    /\ wpc # "awaiting"
    /\ wRunning # {}
    /\ wRunning' = {}
    /\ wLate' \in Replies \cup {[t |-> "error", v |-> "round failed"]}
    /\ UNCHANGED <<wpc, wNow, wEmail, wSecret, wCurrentUrl, wRound, wTimerAt,
                   wStarted, wCur, wReply, wSeed, wBroke, NotWebhook>>

\* Time passes, but not past a pending timer.
WTick ==
    /\ wpc \in {"loop", "awaiting"} \/ wRunning # {}
    /\ wNow < MaxNow
    /\ wpc = "awaiting" => wNow < wTimerAt
    /\ wNow' = IF wpc = "awaiting" /\ wNow + TickMs > wTimerAt
               THEN wTimerAt
               ELSE wNow + TickMs
    /\ UNCHANGED <<wpc, wEmail, wSecret, wCurrentUrl, wRound, wTimerAt,
                   wStarted, wCur, wRunning, wReply, wSeed, wBroke, wLate,
                   NotWebhook>>

NextWebhook ==
    \/ WStartRound
    \/ WLoopExit
    \/ WRoundReturns
    \/ WRoundThrows
    \/ WTimerFires
    \/ WLateSettle
    \/ WTick

SpecWebhook == InitWebhook /\ [][NextWebhook]_vars

\* The run of the background task under the guarantees of the event loop:
\* the clock goes on, a timer that is due fires, and the async function goes
\* on with the while statement whenever it is not awaiting. Nothing is
\* assumed of solveQuiz: a round need never settle.
SpecWebhookFair ==
    /\ SpecWebhook
    /\ WF_vars(WTick)
    /\ WF_vars(WTimerFires)
    /\ WF_vars(WStartRound \/ WLoopExit)

(***************************************************************************)
(* Claims about the background loop.                                       *)
(***************************************************************************)
\* C14: at most 10 rounds are started for one invocation, and none is
\* started once the elapsed time has reached the 170-second deadline.
C14_BoundedRounds ==
    /\ wStarted <= 10
    /\ wStarted >= 1 => wCur.at < 170000

\* The tenth round is running.
C14_Witness == wStarted = 10 /\ wpc = "awaiting"

\* C15: when the timer wins the race or the round throws, the loop ends and
\* no further round is started; the abandoned round is not cancelled and what
\* it settles with later starts nothing; two rounds never run at once.
C15_FailureEndsLoop ==
    /\ wBroke.why # "none" => (wpc = "finished" /\ wStarted = wBroke.started)
    /\ wBroke.why = "timeout" =>
          (wBroke.started \in wRunning \/ wLate # NoReply)
    /\ Cardinality(wRunning) <= 1

\* The timer won, and the abandoned round later returned a reply with a url.
C15_Witness ==
    /\ wBroke.why = "timeout"
    /\ wLate.t = "obj"
    /\ ReplyUrl(wLate) # ""
    /\ wpc = "finished"

\* C16: round n+1 is started only after round n returned an object with a
\* non-empty url, and with exactly that url; the failure marker, a reply that
\* is not an object or an object without url ends the loop; every round gets
\* the email and the secret of the invocation.
C16_FollowsReplyUrl ==
    /\ wStarted >= 1 => (wCur.email = wEmail /\ wCur.secret = wSecret)
    /\ wStarted = 1 => wCur.url = FirstUrl
    /\ wStarted >= 2 =>
          /\ wSeed.t = "obj"
          /\ ReplyUrl(wSeed) # ""
          /\ wCur.url = ReplyUrl(wSeed)
    /\ (wpc = "loop" /\ wStarted >= 1
            /\ (wReply.t # "obj" \/ wReply = FailureMarker \/ ReplyUrl(wReply) = ""))
          => ~ENABLED WStartRound

\* The second round runs on the url of the first round's reply.
C16_Witness ==
    /\ wStarted = 2
    /\ wpc = "awaiting"
    /\ wSeed = JsObj("{\"correct\":false,\"url\":\"https://quiz.test/other\"}")
    /\ wCur.url = NextUrlB

(***************************************************************************)
(* extractBalancedJson (solver.js).  A text is a sequence of characters.   *)
(***************************************************************************)
MaxLen == 5
Alphabet == {"{", "}", "\"", "\\", "a"}

\* foo {"a": "b}c", "d": {"e":1}} bar
NestedExample ==
    <<"f", "o", "o", " ", "{", "\"", "a", "\"", ":", " ", "\"", "b", "}",
      "c", "\"", ",", " ", "\"", "d", "\"", ":", " ", "{", "\"", "e", "\"",
      ":", "1", "}", "}", " ", "b", "a", "r">>

\* x{"\"}"}y
EscapedExample ==
    <<"x", "{", "\"", "\\", "\"", "}", "\"", "}", "y">>

Texts ==
    UNION {[1..n -> Alphabet] : n \in 0..MaxLen}
        \cup {NestedExample, EscapedExample}

\* text.indexOf(ch), counting from 1; 0 stands for -1
RECURSIVE IndexFrom(_, _, _)
IndexFrom(text, ch, i) ==
    IF i > Len(text) THEN 0
    ELSE IF text[i] = ch THEN i
    ELSE IndexFrom(text, ch, i + 1)

IndexOf(text, ch) == IndexFrom(text, ch, 1)

\* The for loop without the escape flag: every double quote closes a string.
RECURSIVE ScanWithoutEscape(_, _, _, _, _)
ScanWithoutEscape(text, i, depth, inString, escape) ==
    IF i > Len(text) THEN 0
    ELSE LET ch == text[i]
         IN IF inString
            THEN ScanWithoutEscape(text, i + 1, depth, ch # "\"", FALSE)
            ELSE IF ch = "\""
                 THEN ScanWithoutEscape(text, i + 1, depth, TRUE, FALSE)
            ELSE IF ch = "{"
                 THEN ScanWithoutEscape(text, i + 1, depth + 1, FALSE, FALSE)
            ELSE IF ch = "}"
                 THEN IF depth - 1 = 0 THEN i
                      ELSE ScanWithoutEscape(text, i + 1, depth - 1, FALSE, FALSE)
            ELSE ScanWithoutEscape(text, i + 1, depth, FALSE, FALSE)

\* The for loop of extractBalancedJson from position i on: the index at which
\* it returns the slice, 0 when it runs off the end.
RECURSIVE Scan(_, _, _, _, _)
Scan(text, i, depth, inString, escape) ==
    IF i > Len(text) THEN 0
    ELSE LET ch == text[i]
         IN IF inString
            THEN IF escape THEN Scan(text, i + 1, depth, TRUE, FALSE)
                 ELSE IF ch = "\\" THEN Scan(text, i + 1, depth, TRUE, TRUE)
                 ELSE IF ch = "\"" THEN Scan(text, i + 1, depth, FALSE, escape)
                 ELSE Scan(text, i + 1, depth, TRUE, escape)
            ELSE IF ch = "\"" THEN Scan(text, i + 1, depth, TRUE, escape)
            ELSE IF ch = "{" THEN Scan(text, i + 1, depth + 1, FALSE, escape)
            ELSE IF ch = "}"
                 THEN IF depth - 1 = 0 THEN i
                      ELSE Scan(text, i + 1, depth - 1, FALSE, escape)
            ELSE Scan(text, i + 1, depth, FALSE, escape)

ExtractBalancedJson(text) ==
    LET start == IndexOf(text, "{")
    IN IF start = 0 THEN NoJson
       ELSE LET end == Scan(text, start, 0, FALSE, FALSE)
            IN IF end = 0 THEN NoJson
               ELSE [isNull |-> FALSE, text |-> SubSeq(text, start, end)]

InitJson ==
    /\ RoundIdle
    /\ DownloadIdle
    /\ BIdle
    /\ XIdle
    /\ AzIdle
    /\ WIdle
    /\ PIdle
    /\ CIdle
    /\ jtext \in Texts
    /\ jout = NoJson
    /\ jdone = FALSE

NotJson == <<svars, dvars, azvars, wvars, pvars, cvars, bvars, xvars>>

\* const jsonText = extractBalancedJson(inner)
JExtract ==
    /\ ~jdone
    /\ jout' = ExtractBalancedJson(jtext)
    /\ jdone' = TRUE
    /\ UNCHANGED <<jtext, NotJson>>

NextJson == JExtract

SpecJson == InitJson /\ [][NextJson]_vars

(***************************************************************************)
(* Claim about extractBalancedJson.                                        *)
(***************************************************************************)
\* The number of backslashes that stand directly before position j.
RECURSIVE BackslashRun(_, _)
BackslashRun(text, j) ==
    IF j > 1 /\ text[j - 1] = "\\" THEN 1 + BackslashRun(text, j - 1) ELSE 0

\* The balanced substring as the claim words it: from the first '{' to the
\* first '}' that brings the depth back to zero, counting only braces outside
\* strings; a double quote inside a string closes it unless an odd number of
\* backslashes stands before it.
BalancedSubstring(text) ==
    LET n == Len(text)
        Opens == {i \in 1..n : text[i] = "{"}
    IN IF Opens = {} THEN NoJson
       ELSE LET start == CHOOSE i \in Opens : \A k \in Opens : i <= k
                InString[j \in start..n] ==
                    IF j = start THEN FALSE
                    ELSE LET before == InString[j - 1]
                             toggles ==
                                 /\ text[j - 1] = "\""
                                 /\ (~before \/ BackslashRun(text, j - 1) % 2 = 0)
                         IN IF toggles THEN ~before ELSE before
                Counted(ch, k) ==
                    Cardinality({j \in start..k : text[j] = ch /\ ~InString[j]})
                Ends == {k \in start..n :
                            /\ text[k] = "}"
                            /\ ~InString[k]
                            /\ Counted("{", k) = Counted("}", k)}
            IN IF Ends = {} THEN NoJson
               ELSE [isNull |-> FALSE,
                     text |-> SubSeq(text, start,
                                     CHOOSE e \in Ends : \A k \in Ends : e <= k)]

\* C17: extractBalancedJson returns null for a text without '{' and when the
\* depth never returns to zero, and otherwise the substring from the first
\* '{' to the first '}' that brings the depth back to zero, braces inside
\* strings not counted and escaped double quotes not closing a string; the
\* nested example of the specification gives its balanced object.
C17_BalancedSubstring ==
    jdone =>
        /\ jout = BalancedSubstring(jtext)
        /\ jtext = NestedExample =>
              jout = [isNull |-> FALSE, text |-> SubSeq(NestedExample, 5, 30)]

\* A string that holds an escaped double quote and a closing brace was
\* skipped, and the object around it returned.
C17_Witness ==
    /\ jdone
    /\ jtext = EscapedExample
    /\ jout = [isNull |-> FALSE, text |-> SubSeq(EscapedExample, 2, 8)]

(***************************************************************************)
(* Strings as sequences of characters, and Number(string).                 *)
(*                                                                         *)
(* A number is an integer count of units of 10^-FracDigits; NaN is apart.  *)
(* Number reads an optional sign, digits and one decimal point; exponents, *)
(* hexadecimal literals and Infinity do not occur in the texts modelled.   *)
(***************************************************************************)
FracDigits == 1

RECURSIVE Pow10(_)
Pow10(n) == IF n = 0 THEN 1 ELSE 10 * Pow10(n - 1)

Scale == Pow10(FracDigits)

DigitChars == <<"0", "1", "2", "3", "4", "5", "6", "7", "8", "9">>

\* /\d/
IsDigit(ch) == \E i \in 1..10 : DigitChars[i] = ch

DigitVal(ch) == (CHOOSE i \in 1..10 : DigitChars[i] = ch) - 1

\* /\s/
IsSpace(ch) == ch \in {" ", "\t", "\n", "\f", "\r"}

NaN == [nan |-> TRUE, val |-> 0]
Num(v) == [nan |-> FALSE, val |-> v]

\* s.trim()
RECURSIVE TrimLeft(_)
TrimLeft(s) == IF s # <<>> /\ IsSpace(Head(s)) THEN TrimLeft(Tail(s)) ELSE s

RECURSIVE TrimRight(_)
TrimRight(s) ==
    IF s # <<>> /\ IsSpace(s[Len(s)])
    THEN TrimRight(SubSeq(s, 1, Len(s) - 1))
    ELSE s

Trim(s) == TrimRight(TrimLeft(s))

AllDigits(s) == \A i \in 1..Len(s) : IsDigit(s[i])

\* The value of a run of digits.
RECURSIVE NatVal(_)
NatVal(s) ==
    IF s = <<>> THEN 0
    ELSE 10 * NatVal(SubSeq(s, 1, Len(s) - 1)) + DigitVal(s[Len(s)])

\* Number(s) for s without sign: digits, digits.digits, digits. or .digits
UnsignedNumber(s) ==
    LET dot == IndexOf(s, ".")
        whole == IF dot = 0 THEN s ELSE SubSeq(s, 1, dot - 1)
        frac == IF dot = 0 THEN <<>> ELSE SubSeq(s, dot + 1, Len(s))
    IN IF /\ AllDigits(whole)
          /\ AllDigits(frac)
          /\ Len(whole) + Len(frac) > 0
          /\ Len(frac) <= FracDigits
       THEN Num(NatVal(whole) * Scale
                  + NatVal(frac) * Pow10(FracDigits - Len(frac)))
       ELSE NaN

\* Number(s)
JsNumber(s) ==
    LET t == Trim(s)
    IN IF t = <<>> THEN Num(0)
       ELSE IF Head(t) = "-"
            THEN LET u == UnsignedNumber(Tail(t))
                 IN IF u.nan THEN NaN ELSE Num(0 - u.val)
       ELSE IF Head(t) = "+" THEN UnsignedNumber(Tail(t))
       ELSE UnsignedNumber(t)

\* Number(x) || 0
OrZero(x) == IF x.nan \/ x.val = 0 THEN 0 ELSE x.val

(***************************************************************************)
(* sumColumn (utils/pdf.js), from the text pdfParse extracted on.          *)
(***************************************************************************)
\* s.split(sep) for a one-character separator
RECURSIVE SplitOn(_, _)
SplitOn(s, sep) ==
    LET at == IndexOf(s, sep)
    IN IF at = 0 THEN <<s>>
       ELSE <<SubSeq(s, 1, at - 1)>> \o SplitOn(SubSeq(s, at + 1, Len(s)), sep)

\* (pages[page-1] || pages[0] || '').trim()
SelectPage(text, page) ==
    LET pages == SplitOn(text, "\f")
    IN Trim(IF page <= Len(pages) /\ pages[page] # <<>> THEN pages[page]
            ELSE pages[1])

RECURSIVE TrimmedNonEmpty(_)
TrimmedNonEmpty(ls) ==
    IF ls = <<>> THEN <<>>
    ELSE LET l == Trim(Head(ls))
         IN (IF l = <<>> THEN <<>> ELSE <<l>>) \o TrimmedNonEmpty(Tail(ls))

\* pageText.split('\n').map(l => l.trim()).filter(Boolean)
LinesOf(pageText) == TrimmedNonEmpty(SplitOn(pageText, "\n"))

\* /\d/.test(ln)
HasDigit(ln) == \E i \in 1..Len(ln) : IsDigit(ln[i])

\* The last position of the run of white space that starts at i.
RECURSIVE SpacesEnd(_, _)
SpacesEnd(ln, i) ==
    IF i < Len(ln) /\ IsSpace(ln[i + 1]) THEN SpacesEnd(ln, i + 1) ELSE i

\* ln.split(/\s{2,}|\t|,/) from position i on, cur being the token begun
RECURSIVE TokensFrom(_, _, _)
TokensFrom(ln, i, cur) ==
    IF i > Len(ln) THEN <<cur>>
    ELSE IF IsSpace(ln[i]) /\ i < Len(ln) /\ IsSpace(ln[i + 1])
         THEN <<cur>> \o TokensFrom(ln, SpacesEnd(ln, i) + 1, <<>>)
    ELSE IF ln[i] \in {"\t", ","}
         THEN <<cur>> \o TokensFrom(ln, i + 1, <<>>)
    ELSE TokensFrom(ln, i + 1, Append(cur, ln[i]))

SplitTokens(ln) == TokensFrom(ln, 1, <<>>)

\* t.replace(/[^0-9.\-]/g, '')
RECURSIVE Strip(_)
Strip(t) ==
    IF t = <<>> THEN <<>>
    ELSE (IF IsDigit(Head(t)) \/ Head(t) \in {".", "-"} THEN <<Head(t)>>
          ELSE <<>>) \o Strip(Tail(t))

\* for (const t of tokens) { const num = Number(t.replace(...));
\*   if (!Number.isNaN(num)) { sum += num; found = true; break; } }
\* NaN stands for a loop that ends without break.
RECURSIVE FirstTokenNumber(_)
FirstTokenNumber(tokens) ==
    IF tokens = <<>> THEN NaN
    ELSE LET num == JsNumber(Strip(Head(tokens)))
         IN IF ~num.nan THEN num ELSE FirstTokenNumber(Tail(tokens))

\* for (const ln of lines) { if (!/\d/.test(ln)) continue; ... }
RECURSIVE SumLines(_)
SumLines(lines) ==
    IF lines = <<>> THEN [sum |-> 0, found |-> FALSE]
    ELSE LET rest == SumLines(Tail(lines))
             num == FirstTokenNumber(SplitTokens(Head(lines)))
         IN IF ~HasDigit(Head(lines)) \/ num.nan THEN rest
            ELSE [sum |-> num.val + rest.sum, found |-> TRUE]

\* The last position of the run of digits that starts at i.
RECURSIVE DigitsEnd(_, _)
DigitsEnd(s, i) ==
    IF i < Len(s) /\ IsDigit(s[i + 1]) THEN DigitsEnd(s, i + 1) ELSE i

\* s.match(/-?\d+(\.\d+)?/g) || [], from position i on
RECURSIVE MatchNumbersFrom(_, _)
MatchNumbersFrom(s, i) ==
    IF i > Len(s) THEN <<>>
    ELSE LET d == IF s[i] = "-" THEN i + 1 ELSE i
         IN IF d <= Len(s) /\ IsDigit(s[d])
            THEN LET e == DigitsEnd(s, d)
                     f == IF e + 2 <= Len(s) /\ s[e + 1] = "." /\ IsDigit(s[e + 2])
                          THEN DigitsEnd(s, e + 2)
                          ELSE e
                 IN <<SubSeq(s, i, f)>> \o MatchNumbersFrom(s, f + 1)
            ELSE MatchNumbersFrom(s, i + 1)

\* allNums.reduce((s, v) => s + Number(v), 0)
RECURSIVE SumNumbers(_)
SumNumbers(ns) ==
    IF ns = <<>> THEN 0 ELSE JsNumber(Head(ns)).val + SumNumbers(Tail(ns))

FallbackSum(pageText) == SumNumbers(MatchNumbersFrom(pageText, 1))

\* sumColumn: the sum it returns, and found as it stands at the return
SumColumn(text, page) ==
    LET pageText == SelectPage(text, page)
        byLine == SumLines(LinesOf(pageText))
    IN IF byLine.found THEN byLine
       ELSE [sum |-> FallbackSum(pageText), found |-> FALSE]

MaxPieces == 4

\* What the generated texts are put together from.
Pieces ==
    {<<"1">>, <<"5">>, <<"a">>, <<" ">>, <<" ", " ">>, <<"\n">>, <<"-">>,
     <<",">>, <<"\f">>}

RECURSIVE Flatten(_)
Flatten(ps) == IF ps = <<>> THEN <<>> ELSE Head(ps) \o Flatten(Tail(ps))

\* Item   10 / Item   20
TwoItemLines ==
    <<"I", "t", "e", "m", " ", " ", " ", "1", "0", "\n", "I", "t", "e", "m", " ", " ", " ", "2", "0">>

\* 10 apples 5 oranges
ApplesAndOranges ==
    <<"1", "0", " ", "a", "p", "p", "l", "e", "s", " ", "5", " ", "o", "r", "a", "n", "g", "e", "s">>

PdfTexts ==
    {Flatten(ps) : ps \in UNION {[1..n -> Pieces] : n \in 0..MaxPieces}}
        \cup {TwoItemLines, ApplesAndOranges}

\* page: parsed?.page || 2
PageChoices == {1, 2}

InitPdf ==
    /\ RoundIdle
    /\ DownloadIdle
    /\ BIdle
    /\ XIdle
    /\ AzIdle
    /\ WIdle
    /\ JIdle
    /\ CIdle
    /\ pText \in PdfTexts
    /\ pPage \in PageChoices
    /\ psum = 0
    /\ pfound = FALSE
    /\ pdone = FALSE

NotPdf == <<svars, dvars, azvars, wvars, jvars, cvars, bvars, xvars>>

\* const sum = await pdfUtil.sumColumn(buf, { page, column })
PSumColumn ==
    /\ ~pdone
    /\ LET r == SumColumn(pText, pPage)
       IN /\ psum' = r.sum
          /\ pfound' = r.found
    /\ pdone' = TRUE
    /\ UNCHANGED <<pText, pPage, NotPdf>>

NextPdf == PSumColumn

SpecPdf == InitPdf /\ [][NextPdf]_vars

(***************************************************************************)
(* Claims about the PDF sum.                                               *)
(***************************************************************************)
\* A token that is a number as it stands: -?digits(.digits)?
IsNumericToken(t) ==
    LET u == Trim(t)
    IN u # <<>> /\ MatchNumbersFrom(u, 1) = <<u>>

\* The first numeric token of a line, NaN when it has none.
RECURSIVE FirstNumericToken(_)
FirstNumericToken(tokens) ==
    IF tokens = <<>> THEN NaN
    ELSE IF IsNumericToken(Head(tokens)) THEN JsNumber(Head(tokens))
    ELSE FirstNumericToken(Tail(tokens))

\* What a line contributes: the value of its first numeric token when it
\* contains a digit and has one.
Contribution(ln) ==
    IF HasDigit(ln) THEN FirstNumericToken(SplitTokens(ln)) ELSE NaN

RECURSIVE SumContributions(_)
SumContributions(lines) ==
    IF lines = <<>> THEN 0
    ELSE OrZero(Contribution(Head(lines))) + SumContributions(Tail(lines))

SomeLineYields(lines) == \E i \in 1..Len(lines) : ~Contribution(lines[i]).nan

\* C18: each line of the selected page that contains a digit adds the value
\* of its first numeric token to the sum, labels being skipped; the lines
\* 'Item   10' and 'Item   20' give 30.
C18_FirstNumericTokenPerLine ==
    pdone =>
        LET lines == LinesOf(SelectPage(pText, pPage))
        IN /\ SomeLineYields(lines) => psum = SumContributions(lines)
           /\ pText = TwoItemLines => psum = 30 * Scale

\* C19: the fallback that sums every numeric substring of the page is used
\* exactly when no line yields a number through the token split; the page
\* '10 apples 5 oranges' takes the fallback and gives 15.
C19_FallbackWhenNoLineYields ==
    pdone =>
        LET pageText == SelectPage(pText, pPage)
        IN /\ ~pfound <=> ~SomeLineYields(LinesOf(pageText))
           /\ ~pfound => psum = FallbackSum(pageText)
           /\ pText = ApplesAndOranges => (~pfound /\ psum = 15 * Scale)

(***************************************************************************)
(* The CSV branch of analyzeQuiz, from the parsed rows on.  A row maps the *)
(* header names it has a cell for to the cell's text.                      *)
(***************************************************************************)
MaxRows == 3

Absent == <<"absent">>
ValueCells == {Absent, <<"3">>, <<"a", "b", "c">>, <<"5", ".", "5">>}
AmountCells == {Absent, <<"4">>, <<"-", "2">>}

\* The row with these cells under the headers value and amount.
RowOf(v, a) ==
    [k \in (IF v = Absent THEN {} ELSE {"value"})
             \cup (IF a = Absent THEN {} ELSE {"amount"})
        |-> IF k = "value" THEN v ELSE a]

CsvRows == {RowOf(v, a) : v \in ValueCells, a \in AmountCells}

RowLists == UNION {[1..n -> CsvRows] : n \in 0..MaxRows}

\* The task descriptions, as far as the column goes.
ColumnChoices ==
    {NoColumns} \cup
    [isNull : {FALSE}, column : {"", "amount"}, field : {"", "amount", "total"}]

\* The column chosen from parsed.column alone.
ColumnOnly(p) == IF ~p.isNull /\ p.column # "" THEN p.column ELSE "value"

\* const col = parsed?.column || parsed?.field || 'value'
Col(p) ==
    IF ~p.isNull /\ p.column # "" THEN p.column
    ELSE IF ~p.isNull /\ p.field # "" THEN p.field
    ELSE "value"

\* Number(r[col]); r[col] is undefined when the row has no such cell
CellNumber(r, col) == IF col \in DOMAIN r THEN JsNumber(r[col]) ELSE NaN

\* rows.reduce((s, r) => s + (Number(r[col]) || 0), 0)
RECURSIVE Reduce(_, _, _)
Reduce(rows, col, s) ==
    IF rows = <<>> THEN s
    ELSE Reduce(Tail(rows), col, s + OrZero(CellNumber(Head(rows), col)))

CsvSum(p, rows) == Reduce(rows, Col(p), 0)

InitCsv ==
    /\ RoundIdle
    /\ DownloadIdle
    /\ BIdle
    /\ XIdle
    /\ AzIdle
    /\ WIdle
    /\ JIdle
    /\ PIdle
    /\ cParsed \in ColumnChoices
    /\ cRows \in RowLists
    /\ csum = 0
    /\ cdone = FALSE

NotCsv == <<svars, dvars, azvars, wvars, jvars, pvars, bvars, xvars>>

\* const sum = rows.reduce(...); return { answer: sum }
CSum ==
    /\ ~cdone
    /\ csum' = CsvSum(cParsed, cRows)
    /\ cdone' = TRUE
    /\ UNCHANGED <<cParsed, cRows, NotCsv>>

NextCsv == CSum

SpecCsv == InitCsv /\ [][NextCsv]_vars

(***************************************************************************)
(* Claim about the CSV sum.                                                *)
(***************************************************************************)
\* The column the claim selects.
SelectedColumn(p) ==
    CASE ~p.isNull /\ p.column # "" -> p.column
      [] ~p.isNull /\ p.column = "" /\ p.field # "" -> p.field
      [] OTHER -> "value"

\* The numeric value of a row's cell, 0 when missing or not a number.
ValueOrZero(r, col) ==
    IF col \in DOMAIN r /\ IsNumericToken(r[col]) THEN JsNumber(r[col]).val ELSE 0

RECURSIVE SumOver(_, _)
SumOver(rows, col) ==
    IF rows = <<>> THEN 0
    ELSE SumOver(SubSeq(rows, 1, Len(rows) - 1), col)
            + ValueOrZero(rows[Len(rows)], col)

ThreeValues ==
    <<RowOf(<<"3">>, Absent), RowOf(<<"a", "b", "c">>, Absent),
      RowOf(<<"5", ".", "5">>, Absent)>>

\* C20: the CSV sum is the sum over all rows of the numeric value of the
\* selected column, a missing or non-numeric value counting as 0; the column
\* is parsed.column if set, else parsed.field if set, else 'value'; the
\* values '3', 'abc', '5.5' give 8.5.
C20_CsvSum ==
    cdone =>
        /\ csum = SumOver(cRows, SelectedColumn(cParsed))
        /\ (cRows = ThreeValues /\ SelectedColumn(cParsed) = "value")
              => csum * 2 = 17 * Scale

\* The rows hold 4, nothing and -2 under amount, which the field names.
C20_Witness ==
    /\ cdone
    /\ ~cParsed.isNull
    /\ cParsed.column = ""
    /\ cParsed.field = "amount"
    /\ cRows = <<RowOf(<<"3">>, <<"4">>), RowOf(<<"a", "b", "c">>, Absent),
                 RowOf(<<"5", ".", "5">>, <<"-", "2">>)>>
    /\ csum = 2 * Scale

(***************************************************************************)
(* Claims about the image branch of a round.                               *)
(***************************************************************************)

\* C23: a round whose analyzeQuiz ran the image-ocr branch holds an error and
\* no answer; when the image was downloaded the error is 'OCR not enabled';
\* the round makes no submission attempt and ends by throwing that error.
C23_ImageOcrNeverAnswers ==
    ran.branch = "image-ocr" =>
        /\ ~analysis.ok
        /\ analysis.answer = ""
        /\ ran.dl = "ok" => analysis.err = "OCR not enabled"
        /\ attemptLog = <<>>
        /\ pc = "done"
        /\ outcome = Thrown(analysis.err)

\* a round that downloaded the image and ended
C23_Witness ==
    /\ ran = [branch |-> "image-ocr", dl |-> "ok"]
    /\ pc = "done"
    /\ analysis.err = "OCR not enabled"

(***************************************************************************)
(* The file branches of analyzeQuiz (pdf, csv, audio, image): the URL of   *)
(* the file, and the calls of downloadToBuffer and fetch they make. A      *)
(* request of the log is one attempt of downloadToBuffer (or the one fetch *)
(* of tryExtractAssetUrlFromPage); what an attempt does inside is the      *)
(* matter of SpecDownload.                                                 *)
(***************************************************************************)
BaseOrigin == "https://quiz.test"
DemoPage == [origin |-> BaseOrigin, path |-> <<"demo-audio">>]
\* parsed.url given as the relative reference 'demo-audio'
RelPage == [origin |-> "", path |-> <<"demo-audio">>]
TextLink == [origin |-> "https://files.test", path |-> <<"clip.opus">>]
ParsedUrls == {NoFileUrl, DemoPage, RelPage}
TextUrls == {NoFileUrl, TextLink}
BaseOrigins == {"", BaseOrigin}

\* parsed?.url || extractFirstFileUrl(pageText, baseUrl)
FileUrl(parsedUrl, textUrl) ==
    IF parsedUrl # NoFileUrl THEN parsedUrl ELSE textUrl

\* fetch and new URL(...) accept an absolute URL only
Valid(url) == url.origin # ""

TaskLabel(branch) ==
    CASE branch = "pdf-sum" -> "PDF"
      [] branch = "csv-sum" -> "CSV"
      [] branch = "audio-transcribe" -> "Audio"
      [] OTHER -> "Image"

\* throw new Error('No file URL for ... task')
NoFileUrlError(branch) == "No file URL for " \o TaskLabel(branch) \o " task"

\* the audio branch with the fast path ahead of the check of the URL
FastPathBeforeUrlCheck(branch, fileUrl, origin) ==
    IF branch = "audio-transcribe" /\ origin # "" THEN "fast"
    ELSE IF fileUrl = NoFileUrl THEN "throw"
    ELSE IF branch # "audio-transcribe" THEN "download"
    ELSE "direct"

\* The first lines of a branch: if (!fileUrl) throw ...; then the download,
\* which in the audio branch is the fast path if (baseOrigin), else the
\* direct GET.
AfterEntry(branch, fileUrl, origin) ==
    IF fileUrl = NoFileUrl THEN "throw"
    ELSE IF branch # "audio-transcribe" THEN "download"
    ELSE IF origin # "" THEN "fast"
    ELSE "direct"

\* opts.retries of the calls of downloadToBuffer: the attempts a call makes
FastRetries == 2
DirectRetries == 2
AssetRetries == 3
CandidateRetries == 1
DefaultRetries == 2

\* every call gives up after its first attempt
SingleAttempt(phase) == 1

Retries(phase) ==
    CASE phase = "fast" -> FastRetries
      [] phase = "direct" -> DirectRetries
      [] phase = "asset" -> AssetRetries
      [] phase = "alt" -> CandidateRetries
      [] phase = "page" -> 1
      [] OTHER -> DefaultRetries

\* `${baseOrigin}/...`: with baseOrigin null the string is 'null/...', which
\* is no absolute URL
UnderOrigin(origin, path) ==
    IF origin = "" THEN [origin |-> "", path |-> <<"null">> \o path]
    ELSE [origin |-> origin, path |-> path]

CandidatePaths ==
    << <<"audio.opus">>, <<"demo-audio.opus">>, <<"audio.mp3">>, <<"demo.mp3">>,
       <<"demo-audio.mp3">>, <<"api", "audio.opus">>, <<"api", "audio.mp3">>,
       <<"static", "audio.opus">>, <<"static", "demo-audio.opus">>,
       <<"assets", "audio.opus">>, <<"assets", "demo-audio.opus">> >>

\* candidates of tryAlternativeAudioPaths: filled inside a try that
\* new URL(pageUrl) leaves at once when pageUrl is no absolute URL
Candidates(pageUrl, origin) ==
    IF ~Valid(pageUrl) THEN <<>>
    ELSE [k \in 1..Len(CandidatePaths) |-> UnderOrigin(origin, CandidatePaths[k])]

\* the message with the length of the full list, whatever was tried
CouldNotFindOfFullList(n) ==
    "Could not find audio file. Tried " \o ToString(Len(CandidatePaths))
        \o " alternative paths."

\* throw new Error(`Could not find audio file. Tried ${candidates.length} ...`)
CouldNotFind(n) ==
    "Could not find audio file. Tried " \o ToString(n) \o " alternative paths."

\* What the four heuristics of tryExtractAssetUrlFromPage find in the HTML:
\* the src of an <audio>/<source> tag, an og: meta tag, the url field of an
\* inline JSON blob (absolute: the pattern asks for 'http'), a bare link with
\* an audio extension.
CdnJson == [origin |-> "https://cdn.test", path |-> <<"track.mp3">>]
CdnOg == [origin |-> "https://cdn.test", path |-> <<"og.mp3">>]
CdnLink == [origin |-> "https://cdn.test", path |-> <<"link.opus">>]
TagSelf == [origin |-> "", path |-> <<"demo-audio">>]
TagMp3 == [origin |-> "", path |-> <<"demo-audio.mp3">>]
NoAudioPage ==
    [json |-> NoFileUrl, tag |-> NoFileUrl, meta |-> NoFileUrl, link |-> NoFileUrl]
AudioPages ==
    [json : {NoFileUrl, CdnJson}, tag : {NoFileUrl, TagSelf, TagMp3},
     meta : {NoFileUrl, CdnOg}, link : {NoFileUrl, CdnLink}]

\* tryExtractAssetUrlFromPage after the fetch: 1) audio/source tags, 2) meta
\* og:audio / og:video, 3) inline JSON-like blob, 4) direct link; the first
\* three through new URL(match, pageUrl).
AssetUrlFromPage(page, pageUrl) ==
    IF page.tag # NoFileUrl THEN Resolve(page.tag, pageUrl)
    ELSE IF page.meta # NoFileUrl THEN Resolve(page.meta, pageUrl)
    ELSE IF page.json # NoFileUrl THEN Resolve(page.json, pageUrl)
    ELSE page.link

\* the path segments of the model that begin with 'demo-audio'
DemoAudioSegments == {"demo-audio", "demo-audio.mp3", "demo-audio.opus"}

\* assetUrl.includes('/demo-audio')
IncludesDemoAudio(url) ==
    \E i \in 1..Len(url.path) : url.path[i] \in DemoAudioSegments

Placeholder == "TRANSCRIPTION_PLACEHOLDER"
Phases == {"fast", "direct", "page", "asset", "alt", "download"}

NotBranch == <<svars, dvars, azvars, wvars, jvars, pvars, cvars, xvars>>

InitBranch ==
    /\ RoundIdle
    /\ DownloadIdle
    /\ AzIdle
    /\ WIdle
    /\ PureIdle
    /\ XIdle
    /\ bpc = "entry"
    /\ bBranch \in {"pdf-sum", "csv-sum", "audio-transcribe", "image-ocr"}
    /\ bParsedUrl \in ParsedUrls
    /\ bTextUrl \in TextUrls
    /\ bOrigin \in BaseOrigins
    /\ bTry = 0
    /\ bCand = 0
    /\ bExtracted = NoFileUrl
    /\ bLog = <<>>
    /\ bBuf = NoFileUrl
    /\ bResult = NoAnalysis

BFileUrl == FileUrl(bParsedUrl, bTextUrl)
BCandidates == Candidates(BFileUrl, bOrigin)
BPending == bLog # <<>> /\ bLog[Len(bLog)].res = "pending"
LastUrl == bLog[Len(bLog)].url
BSettled(r) == [bLog EXCEPT ![Len(bLog)].res = r]
\* the fetch of the page settles with a response whose body is `page`
BServed(page) == [bLog EXCEPT ![Len(bLog)].res = "ok", ![Len(bLog)].html = page]
\* what the network can do to a request: nothing reaches it when the URL is
\* not absolute
Results(url) == IF Valid(url) THEN {"ok", "failed"} ELSE {"failed"}

\* the URL a phase requests
BTarget(phase) ==
    CASE phase = "fast" -> UnderOrigin(bOrigin, <<"demo-audio.opus">>)
      [] phase = "asset" -> bExtracted
      [] phase = "alt" -> BCandidates[bCand]
      [] OTHER -> BFileUrl

\* return { answer: ... } / throw
BEnd(result) ==
    /\ bpc' = "done"
    /\ bResult' = result

\* the branch goes on with the next call
BGoto(phase) ==
    /\ bpc' = phase
    /\ bTry' = 0
    /\ bResult' = bResult

\* the same call of downloadToBuffer makes another attempt
BAgain ==
    /\ UNCHANGED <<bpc, bTry, bResult>>

\* const fileUrl = parsed?.url || extractFirstFileUrl(...);
\* if (!fileUrl) throw ...; baseOrigin; if (baseOrigin) { fast path }
BEnter ==
    /\ bpc = "entry"
    /\ LET to == AfterEntry(bBranch, BFileUrl, bOrigin) IN
       IF to = "throw"
       THEN BEnd(Failure(NoFileUrlError(bBranch))) /\ bTry' = bTry
       ELSE BGoto(to)
    /\ UNCHANGED <<bBranch, bParsedUrl, bTextUrl, bOrigin, bCand, bExtracted,
                   bLog, bBuf, NotBranch>>

\* an attempt of the current call sends its request
BRequest ==
    /\ bpc \in Phases
    /\ ~BPending
    /\ bLog' = Append(bLog, [phase |-> bpc, url |-> BTarget(bpc),
                             res |-> "pending", html |-> NoAudioPage])
    /\ bTry' = bTry + 1
    /\ UNCHANGED <<bpc, bBranch, bParsedUrl, bTextUrl, bOrigin, bCand,
                   bExtracted, bBuf, bResult, NotBranch>>

\* the fast path settles: return the placeholder, or after the last attempt
\* the empty catch and the robust flow
BFastSettles ==
    /\ bpc = "fast"
    /\ BPending
    /\ \E r \in Results(LastUrl) :
          /\ bLog' = BSettled(r)
          /\ IF r = "ok"
             THEN BEnd(Answer(Placeholder)) /\ bBuf' = LastUrl /\ bTry' = bTry
             ELSE IF bTry < Retries("fast") THEN BAgain /\ bBuf' = bBuf
             ELSE BGoto("direct") /\ bBuf' = bBuf
    /\ UNCHANGED <<bBranch, bParsedUrl, bTextUrl, bOrigin, bCand, bExtracted,
                   NotBranch>>

\* the direct GET of pageOrFileUrl settles: the placeholder, or the catch
\* that calls tryExtractAssetUrlFromPage
BDirectSettles ==
    /\ bpc = "direct"
    /\ BPending
    /\ \E r \in Results(LastUrl) :
          /\ bLog' = BSettled(r)
          /\ IF r = "ok"
             THEN BEnd(Answer(Placeholder)) /\ bBuf' = LastUrl /\ bTry' = bTry
             ELSE IF bTry < Retries("direct") THEN BAgain /\ bBuf' = bBuf
             ELSE BGoto("page") /\ bBuf' = bBuf
    /\ UNCHANGED <<bBranch, bParsedUrl, bTextUrl, bOrigin, bCand, bExtracted,
                   NotBranch>>

\* tryAlternativeAudioPaths begins: the first candidate, or the throw when
\* there is none
EnterAlt ==
    IF BCandidates = <<>>
    THEN BEnd(Failure(CouldNotFind(0))) /\ bTry' = bTry /\ bCand' = bCand
    ELSE BGoto("alt") /\ bCand' = 1

\* the fetch of tryExtractAssetUrlFromPage settles (a network error gives
\* { url: null }), and the choice between the extracted URL and the
\* candidate paths
BPageSettles ==
    /\ bpc = "page"
    /\ BPending
    /\ \/ /\ bLog' = BSettled("failed")
          /\ bExtracted' = NoFileUrl
          /\ EnterAlt
       \/ /\ Valid(LastUrl)
          /\ \E page \in AudioPages :
                LET asset == AssetUrlFromPage(page, LastUrl) IN
                /\ bLog' = BServed(page)
                /\ bExtracted' = asset
                /\ IF asset # NoFileUrl /\ ~IncludesDemoAudio(asset)
                   THEN BGoto("asset") /\ bCand' = bCand
                   ELSE EnterAlt
    /\ UNCHANGED <<bBranch, bParsedUrl, bTextUrl, bOrigin, bBuf, NotBranch>>

\* the download of the extracted URL settles; its error is not caught
BAssetSettles ==
    /\ bpc = "asset"
    /\ BPending
    /\ \E r \in Results(LastUrl) :
          /\ bLog' = BSettled(r)
          /\ IF r = "ok"
             THEN BEnd(Answer(Placeholder)) /\ bBuf' = LastUrl /\ bTry' = bTry
             ELSE IF bTry < Retries("asset") THEN BAgain /\ bBuf' = bBuf
             ELSE BEnd(Failure("Download failed")) /\ bBuf' = bBuf /\ bTry' = bTry
    /\ UNCHANGED <<bBranch, bParsedUrl, bTextUrl, bOrigin, bCand, bExtracted,
                   NotBranch>>

\* for (const candidate of candidates): return buf on success, otherwise the
\* next candidate; after the loop the throw
BAltSettles ==
    /\ bpc = "alt"
    /\ BPending
    /\ \E r \in Results(LastUrl) :
          /\ bLog' = BSettled(r)
          /\ IF r = "ok"
             THEN /\ BEnd(Answer(Placeholder))
                  /\ bBuf' = LastUrl
                  /\ UNCHANGED <<bTry, bCand>>
             ELSE IF bTry < Retries("alt")
             THEN BAgain /\ UNCHANGED <<bBuf, bCand>>
             ELSE IF bCand < Len(BCandidates)
             THEN BGoto("alt") /\ bCand' = bCand + 1 /\ bBuf' = bBuf
             ELSE /\ BEnd(Failure(CouldNotFind(Len(BCandidates))))
                  /\ UNCHANGED <<bTry, bCand, bBuf>>
    /\ UNCHANGED <<bBranch, bParsedUrl, bTextUrl, bOrigin, bExtracted, NotBranch>>

\* what the pdf, csv and image branches do with the bytes
AfterDownload(branch) ==
    CASE branch = "image-ocr" -> OcrBuffer
      [] OTHER -> Answer("sum")

\* const buf = await downloadToBuffer(fileUrl) of the pdf, csv and image
\* branches settles
BDownloadSettles ==
    /\ bpc = "download"
    /\ BPending
    /\ \E r \in Results(LastUrl) :
          /\ bLog' = BSettled(r)
          /\ IF r = "ok"
             THEN BEnd(AfterDownload(bBranch)) /\ bBuf' = LastUrl /\ bTry' = bTry
             ELSE IF bTry < Retries("download") THEN BAgain /\ bBuf' = bBuf
             ELSE BEnd(Failure("Download failed")) /\ bBuf' = bBuf /\ bTry' = bTry
    /\ UNCHANGED <<bBranch, bParsedUrl, bTextUrl, bOrigin, bCand, bExtracted,
                   NotBranch>>

NextBranch ==
    \/ BEnter
    \/ BRequest
    \/ BFastSettles
    \/ BDirectSettles
    \/ BPageSettles
    \/ BAssetSettles
    \/ BAltSettles
    \/ BDownloadSettles

SpecBranch == InitBranch /\ [][NextBranch]_vars

(***************************************************************************)
(* Claims about the file branches.                                         *)
(***************************************************************************)

\* C21: in the pdf, csv, audio and image branches, a call without parsed.url
\* and without an http(s) URL in the page text ends with the branch's
\* 'No file URL' error and has sent no request, the fast path's included.
C21_NoUrlFailsBeforeAnyRequest ==
    (bParsedUrl = NoFileUrl /\ bTextUrl = NoFileUrl) =>
        /\ bLog = <<>>
        /\ bpc \in {"entry", "done"}
        /\ bpc = "done" => bResult = Failure(NoFileUrlError(bBranch))

\* the audio branch, with an origin at hand for the fast path, has thrown
C21_Witness ==
    /\ bParsedUrl = NoFileUrl
    /\ bTextUrl = NoFileUrl
    /\ bBranch = "audio-transcribe"
    /\ bOrigin = BaseOrigin
    /\ bpc = "done"
    /\ bResult = Failure("No file URL for Audio task")

FastUrl == UnderOrigin(bOrigin, <<"demo-audio.opus">>)

\* C24: in the audio branch with a derivable origin the first request is the
\* fast path's GET of origin/demo-audio.opus; a fast-path request that
\* succeeds is the last request and the call returns the placeholder; a
\* direct GET of the task URL comes only when there is no origin or after
\* the fast path has failed on each of its attempts.
C24_FastPathFirst ==
    bBranch = "audio-transcribe" =>
        /\ (bOrigin # "" /\ bLog # <<>>) =>
              /\ bLog[1].phase = "fast"
              /\ bLog[1].url = [origin |-> bOrigin, path |-> <<"demo-audio.opus">>]
        /\ \A i \in 1..Len(bLog) :
              (bLog[i].phase = "fast" /\ bLog[i].res = "ok") =>
                  /\ i = Len(bLog)
                  /\ bpc = "done"
                  /\ bResult = Answer("TRANSCRIPTION_PLACEHOLDER")
        /\ \A i \in 1..Len(bLog) :
              bLog[i].phase = "direct" =>
                  /\ bLog[i].url = BFileUrl
                  /\ \/ bOrigin = ""
                     \/ /\ i > FastRetries
                        /\ \A j \in 1..FastRetries :
                              /\ bLog[j].phase = "fast"
                              /\ bLog[j].url = FastUrl
                              /\ bLog[j].res = "failed"
        /\ \A i \in 1..Len(bLog) : bLog[i].phase = "fast" => bOrigin # ""

\* the fast path succeeded at its second attempt and the call has returned
C24_Witness ==
    /\ bBranch = "audio-transcribe"
    /\ bpc = "done"
    /\ Len(bLog) = 2
    /\ bLog[1].phase = "fast" /\ bLog[1].url = FastUrl /\ bLog[1].res = "failed"
    /\ bLog[2].phase = "fast" /\ bLog[2].url = FastUrl /\ bLog[2].res = "ok"
    /\ bResult = Answer("TRANSCRIPTION_PLACEHOLDER")

\* the order of the heuristics as C25 states it: inline JSON field, then
\* audio/source tag, then og: meta tag, then bare link
JsonFirst(page, pageUrl) ==
    IF page.json # NoFileUrl THEN Resolve(page.json, pageUrl)
    ELSE IF page.tag # NoFileUrl THEN Resolve(page.tag, pageUrl)
    ELSE IF page.meta # NoFileUrl THEN Resolve(page.meta, pageUrl)
    ELSE page.link

\* C25: when the scan of the task URL's HTML has run, the URL it returned is
\* the one found by the first matching heuristic in the order JSON field,
\* audio/source tag, og: meta tag, bare link; a page with a JSON url field and
\* an <audio src> tag gives the JSON field's URL.
C25_JsonFieldFirst ==
    \A i \in 1..Len(bLog) :
        (bLog[i].phase = "page" /\ bLog[i].res = "ok") =>
            bExtracted = JsonFirst(bLog[i].html, bLog[i].url)

\* C26: once the scan of the page has settled, the candidate paths are
\* probed exactly when the scan found no URL or found the page's own URL; any
\* other extracted URL (origin/demo-audio.mp3, say) is downloaded, no
\* candidate is requested, and the failure of that download fails the task.
C26_CandidatesOnlyForSelfOrNone ==
    \A i \in 1..Len(bLog) :
        (bLog[i].phase = "page" /\ bLog[i].res # "pending") =>
            LET self == bExtracted = NoFileUrl \/ bExtracted = bLog[i].url
                phases == {bLog[k].phase : k \in i + 1..Len(bLog)}
            IN /\ self => bpc # "asset" /\ "asset" \notin phases
               /\ ~self =>
                     /\ bpc # "alt" /\ "alt" \notin phases
                     /\ \A k \in i + 1..Len(bLog) : bLog[k].url = bExtracted
                     /\ (bpc = "done" /\ ~bResult.ok) =>
                            bResult = Failure("Download failed")

\* the requests of tryAlternativeAudioPaths, in the order they were sent
AltRequests == SelectSeq(bLog, LAMBDA e : e.phase = "alt")
\* the errors tryAlternativeAudioPaths can raise
AltErrors ==
    {"Could not find audio file. Tried " \o ToString(n) \o " alternative paths."
        : n \in 0..Len(CandidatePaths)}

\* C27: tryAlternativeAudioPaths requests the candidates one at a time in
\* list order, the next one only after the one before has failed; the first
\* success ends the call with that candidate's bytes and no later request;
\* when all have failed the error names the number of candidates tried.
C27_CandidatesInOrder ==
    LET alt == AltRequests
        n == Len(alt)
    IN /\ \A k \in 1..n :
             /\ k <= Len(BCandidates)
             /\ alt[k].url = BCandidates[k]
             /\ k < n => alt[k].res = "failed"
       /\ (n > 0 /\ alt[n].res = "ok") =>
             /\ bLog[Len(bLog)] = alt[n]
             /\ bpc = "done"
             /\ bBuf = alt[n].url
             /\ bResult.ok
       /\ (n > 0 /\ alt[n].res = "failed") =>
             IF n < Len(BCandidates) THEN bpc = "alt" ELSE bpc = "done"
       /\ (bpc = "done" /\ bResult.err \in AltErrors) =>
             /\ \A k \in 1..n : alt[k].res = "failed"
             /\ n = Len(BCandidates)
             /\ bResult.err = "Could not find audio file. Tried "
                                 \o ToString(n) \o " alternative paths."

\* the third candidate succeeded after the first two had failed
C27_Witness ==
    /\ bpc = "done"
    /\ Len(AltRequests) = 3
    /\ AltRequests[1].res = "failed"
    /\ AltRequests[2].res = "failed"
    /\ AltRequests[3].res = "ok"
    /\ bBuf = [origin |-> BaseOrigin, path |-> <<"audio.mp3">>]

(***************************************************************************)
(* The page content of solveQuiz: the payload of atob(`...`) decoded from  *)
(* base64, or the text of the body; then extractBalancedJson.              *)
(***************************************************************************)
MaxPayload == 4
PayloadAlphabet == {"e", "3", "0", "/", "!", "=", " "}
Payloads == UNION {[1..n -> PayloadAlphabet] : n \in 0..MaxPayload}
EmptyObject == <<"{", "}">>
Bodies == {<<>>, <<"a">>, EmptyObject, NestedExample}

\* html as page.content() returns it: whether it holds atob(`...`), what is
\* between the backticks, and the text of <body>
Htmls ==
    [marker : {TRUE}, payload : Payloads, body : Bodies]
        \cup [marker : {FALSE}, payload : {<<>>}, body : Bodies]

B64Chars ==
    <<"A", "B", "C", "D", "E", "F", "G", "H", "I", "J", "K", "L", "M",
      "N", "O", "P", "Q", "R", "S", "T", "U", "V", "W", "X", "Y", "Z",
      "a", "b", "c", "d", "e", "f", "g", "h", "i", "j", "k", "l", "m",
      "n", "o", "p", "q", "r", "s", "t", "u", "v", "w", "x", "y", "z",
      "0", "1", "2", "3", "4", "5", "6", "7", "8", "9", "+", "/">>
IsB64(ch) == \E i \in 1..64 : B64Chars[i] = ch
B64Val(ch) == (CHOOSE i \in 1..64 : B64Chars[i] = ch) - 1

\* .replace(/\s+/g, '')
RECURSIVE StripSpaces(_)
StripSpaces(s) ==
    IF s = <<>> THEN <<>>
    ELSE IF IsSpace(Head(s)) THEN StripSpaces(Tail(s))
    ELSE <<Head(s)>> \o StripSpaces(Tail(s))

\* The 6-bit values the base64 decoder of Buffer.from reads: a character
\* outside the alphabet is skipped, '=' ends the input; nothing is raised.
RECURSIVE Sextets(_)
Sextets(s) ==
    IF s = <<>> \/ Head(s) = "=" THEN <<>>
    ELSE IF IsB64(Head(s)) THEN <<B64Val(Head(s))>> \o Sextets(Tail(s))
    ELSE Sextets(Tail(s))

\* four values give three bytes, three give two, two give one, one gives none
RECURSIVE OctetsOf(_)
OctetsOf(v) ==
    IF Len(v) < 2 THEN <<>>
    ELSE LET b1 == v[1] * 4 + v[2] \div 16 IN
         IF Len(v) = 2 THEN <<b1>>
         ELSE LET b2 == (v[2] % 16) * 16 + v[3] \div 4 IN
              IF Len(v) = 3 THEN <<b1, b2>>
              ELSE <<b1, b2, (v[3] % 4) * 64 + v[4]>>
                       \o OctetsOf(SubSeq(v, 5, Len(v)))

\* the printable ASCII characters, from code 32 to code 126 (code 96, the
\* grave accent, by its name)
Ascii ==
    <<" ", "!", "\"", "#", "$", "%", "&", "'", "(", ")", "*", "+", ",", "-",
      ".", "/", "0", "1", "2", "3", "4", "5", "6", "7", "8", "9", ":", ";",
      "<", "=", ">", "?", "@", "A", "B", "C", "D", "E", "F", "G", "H", "I",
      "J", "K", "L", "M", "N", "O", "P", "Q", "R", "S", "T", "U", "V", "W",
      "X", "Y", "Z", "[", "\\", "]", "^", "_", "<grave>", "a", "b", "c", "d", "e",
      "f", "g", "h", "i", "j", "k", "l", "m", "n", "o", "p", "q", "r", "s",
      "t", "u", "v", "w", "x", "y", "z", "{", "|", "}", "~">>

\* U+FFFD, which toString('utf-8') puts for a byte that is no UTF-8
Replacement == "<U+FFFD>"

\* .toString('utf-8') of one byte. The payloads of the model decode to no
\* byte pair that is a UTF-8 sequence (a first byte of 0xD0-0xDF is followed
\* by a byte outside 0x80-0xBF), so every byte from 0x80 up is replaced.
CharOf(b) ==
    IF b \in 32..126 THEN Ascii[b - 31]
    ELSE IF b < 128 THEN "<control>"
    ELSE Replacement

\* Buffer.from(payload.replace(/\s+/g,''), 'base64').toString('utf-8')
Base64Decode(payload) ==
    LET bytes == OctetsOf(Sextets(StripSpaces(payload)))
    IN [i \in 1..Len(bytes) |-> CharOf(bytes[i])]

\* if (base64Match) inner = Buffer.from(...).toString('utf-8');
\* else inner = await page.textContent('body');
Inner(html) ==
    IF html.marker THEN Base64Decode(html.payload) ELSE html.body

NotContent == <<svars, dvars, azvars, wvars, jvars, pvars, cvars, bvars>>

InitContent ==
    /\ RoundIdle
    /\ DownloadIdle
    /\ AzIdle
    /\ WIdle
    /\ PureIdle
    /\ BIdle
    /\ xHtml \in Htmls
    /\ xInner = <<>>
    /\ xJsonStr = NoJson
    /\ xdone = FALSE

\* const html = await page.content(); ... inner ...;
\* const jsonStr = extractBalancedJson(inner)
XExtract ==
    /\ ~xdone
    /\ xInner' = Inner(xHtml)
    /\ xJsonStr' = ExtractBalancedJson(Inner(xHtml))
    /\ xdone' = TRUE
    /\ UNCHANGED <<xHtml, NotContent>>

NextContent == XExtract

SpecContent == InitContent /\ [][NextContent]_vars

(***************************************************************************)
(* Claims about the page content.                                          *)
(***************************************************************************)

\* the payload decodes to a text: not empty, no replacement character
Decodes(payload) ==
    LET text == Base64Decode(payload)
    IN text # <<>> /\ \A i \in 1..Len(text) : text[i] # Replacement

\* C22: the content of a page is the decoded payload when the atob marker is
\* there and the payload decodes, and the body text otherwise; with a marker
\* whose payload does not decode to a text, the content that goes to the
\* JSON extraction is the body text.
C22_DecodeFailureFallsBack ==
    xdone =>
        /\ xInner = IF xHtml.marker /\ Decodes(xHtml.payload)
                    THEN Base64Decode(xHtml.payload)
                    ELSE xHtml.body
        /\ xJsonStr = ExtractBalancedJson(xInner)

(***************************************************************************)
(* Claims about the end of the webhook's background task.                  *)
(***************************************************************************)

\* C28: the background task of an accepted webhook call reaches 'Solver
\* background task finished' in every run, whatever the rounds reply and
\* also when a call of solveQuiz never settles: the round's timer ends the
\* wait.
C28_BackgroundTaskFinishes == <>(wpc = "finished")

\* the task has finished on the timer while the round it called, after a
\* reply that brought a follow-up url, has still not settled
C28_Witness ==
    /\ wpc = "finished"
    /\ wBroke.why = "timeout"
    /\ wRunning # {}
    /\ wRound > 0

====
